---- MODULE Spec2Model ----
(***************************************************************************)
(* Model of the value-extraction workflow of climate-app-lst-workflow:     *)
(*   src/src/main.py            run_workflow and its steps                 *)
(*   src/src/app/get_values.py  DatasetsValueExtractor, ValueExtractor,    *)
(*                              eval_expr                                  *)
(*   src/src/app/asset_data.py  AssetData (geometry classification)        *)
(*   src/src/app/create_response.py  WorkflowResponse                      *)
(*                                                                         *)
(* Python values are records tagged by the field k:                        *)
(*   [k |-> "none"]                      None                              *)
(*   [k |-> "nan"]                       float("nan")                      *)
(*   [k |-> "num", ty, n, d]             the int or float n/d (d > 0,      *)
(*                                       lowest terms); floats are taken   *)
(*                                       as exact rationals                *)
(*   [k |-> "inexact"]                   a float or complex result that is *)
(*                                       no rational (fractional powers)   *)
(*   [k |-> "str", s]                    a string, s its sequence of words *)
(*   [k |-> "exc", e]                    a raised exception of class e     *)
(***************************************************************************)
EXTENDS Integers, Sequences, FiniteSets, TLC

None == [k |-> "none"]
NaN == [k |-> "nan"]
Inexact == [k |-> "inexact"]
Str(s) == [k |-> "str", s |-> s]
Exc(e) == [k |-> "exc", e |-> e]
IsExc(v) == v.k = "exc"

Abs(i) == IF i < 0 THEN -i ELSE i

RECURSIVE Gcd(_, _)
Gcd(a, b) == IF b = 0 THEN a ELSE Gcd(b, a % b)

\* The number n/d in lowest terms with a positive denominator.
Num(ty, n, d) ==
    LET s == IF d < 0 THEN -1 ELSE 1
        g == Gcd(Abs(n), Abs(d))
    IN  [k |-> "num", ty |-> ty, n |-> (s * n) \div g, d |-> (s * d) \div g]

PyInt(i) == Num("int", i, 1)
PyFloat(n, d) == Num("float", n, d)

\* Python's ==: an int and a float of the same value are equal.
PyEq(a, b) ==
    IF a.k = "num" /\ b.k = "num" THEN a.n = b.n /\ a.d = b.d ELSE a = b

RECURSIVE IntPow(_, _)
IntPow(b, e) == IF e = 0 THEN 1 ELSE b * IntPow(b, e - 1)

\* a ^ b on Python ints (two's complement of unbounded width).
RECURSIVE NatXor(_, _)
NatXor(a, b) ==
    IF a = 0 THEN b
    ELSE IF b = 0 THEN a
    ELSE (((a % 2) + (b % 2)) % 2) + 2 * NatXor(a \div 2, b \div 2)

IntXor(a, b) ==
    CASE a >= 0 /\ b >= 0 -> NatXor(a, b)
      [] a < 0 /\ b < 0   -> NatXor(-a - 1, -b - 1)
      [] a < 0 /\ b >= 0  -> -NatXor(-a - 1, b) - 1
      [] OTHER            -> -NatXor(a, -b - 1) - 1

\* round-half-to-even of the rational n/d (d > 0) to an integer.
RoundHalfEven(n, d) ==
    LET fl == n \div d
        r2 == 2 * (n - fl * d)
    IN  IF r2 < d THEN fl
        ELSE IF r2 > d THEN fl + 1
        ELSE IF fl % 2 = 0 THEN fl ELSE fl + 1

NumType(a, b) == IF a.ty = "float" \/ b.ty = "float" THEN "float" ELSE "int"

RECURSIVE Repeat(_, _)
Repeat(s, i) == IF i <= 0 THEN <<>> ELSE s \o Repeat(s, i - 1)

\* operator.add, operator.sub, operator.mul
py_add(a, b) ==
    CASE a.k = "num" /\ b.k = "num" ->
             Num(NumType(a, b), a.n * b.d + b.n * a.d, a.d * b.d)
      [] a.k = "str" /\ b.k = "str" -> Str(a.s \o b.s)
      [] a.k \in {"num", "inexact"} /\ b.k \in {"num", "inexact"} -> Inexact
      [] OTHER -> Exc("TypeError")

py_sub(a, b) ==
    CASE a.k = "num" /\ b.k = "num" ->
             Num(NumType(a, b), a.n * b.d - b.n * a.d, a.d * b.d)
      [] a.k \in {"num", "inexact"} /\ b.k \in {"num", "inexact"} -> Inexact
      [] OTHER -> Exc("TypeError")

py_mul(a, b) ==
    CASE a.k = "num" /\ b.k = "num" ->
             Num(NumType(a, b), a.n * b.n, a.d * b.d)
      [] a.k = "str" /\ b.k = "num" /\ b.ty = "int" -> Str(Repeat(a.s, b.n))
      [] a.k = "num" /\ a.ty = "int" /\ b.k = "str" -> Str(Repeat(b.s, a.n))
      [] a.k \in {"num", "inexact"} /\ b.k \in {"num", "inexact"} -> Inexact
      [] OTHER -> Exc("TypeError")

\* A division that floors (// written for /).
py_floordiv(a, b) ==
    CASE a.k = "num" /\ b.k = "num" ->
             IF b.n = 0 THEN Exc("ZeroDivisionError")
             ELSE Num(NumType(a, b), (a.n * b.d) \div (a.d * b.n), 1)
      [] OTHER -> Exc("TypeError")

\* operator.truediv: always a float, ZeroDivisionError on a zero divisor.
py_truediv(a, b) ==
    CASE a.k = "num" /\ b.k = "num" ->
             IF b.n = 0 THEN Exc("ZeroDivisionError")
             ELSE Num("float", a.n * b.d, a.d * b.n)
      [] a.k \in {"num", "inexact"} /\ b.k \in {"num", "inexact"} ->
             IF b.k = "num" /\ b.n = 0 THEN Exc("ZeroDivisionError") ELSE Inexact
      [] OTHER -> Exc("TypeError")

\* operator.pow: int ** non-negative int is an int, every other power a float.
py_pow(a, b) ==
    CASE a.k = "num" /\ b.k = "num" ->
             IF b.d # 1 THEN Inexact
             ELSE IF b.n >= 0
                  THEN Num(NumType(a, b), IntPow(a.n, b.n), IntPow(a.d, b.n))
             ELSE IF a.n = 0 THEN Exc("ZeroDivisionError")
             ELSE Num("float", IntPow(a.d, -b.n), IntPow(a.n, -b.n))
      [] a.k \in {"num", "inexact"} /\ b.k \in {"num", "inexact"} -> Inexact
      [] OTHER -> Exc("TypeError")

\* operator.xor: defined on ints only.
py_xor(a, b) ==
    IF a.k = "num" /\ b.k = "num" /\ a.ty = "int" /\ b.ty = "int"
    THEN PyInt(IntXor(a.n, b.n))
    ELSE Exc("TypeError")

\* operator.neg
py_neg(a) ==
    CASE a.k = "num" -> Num(a.ty, -a.n, a.d)
      [] a.k = "inexact" -> Inexact
      [] OTHER -> Exc("TypeError")

\* The builtin round(*args): one argument rounds to an int, a second one must
\* be an int and keeps the type of the first.
py_round(args) ==
    IF Len(args) \notin {1, 2} THEN Exc("TypeError")
    ELSE IF args[1].k = "inexact"
         THEN (IF Len(args) = 2 /\ ~(args[2].k = "num" /\ args[2].ty = "int")
               THEN Exc("TypeError") ELSE Inexact)
    ELSE IF args[1].k # "num" THEN Exc("TypeError")
    ELSE IF Len(args) = 1 THEN PyInt(RoundHalfEven(args[1].n, args[1].d))
    ELSE IF ~(args[2].k = "num" /\ args[2].ty = "int") THEN Exc("TypeError")
    ELSE LET x == args[1]
             nd == args[2].n
         IN  IF nd >= 0
             THEN Num(x.ty, RoundHalfEven(x.n * IntPow(10, nd), x.d), IntPow(10, nd))
             ELSE Num(x.ty, RoundHalfEven(x.n, x.d * IntPow(10, -nd)) * IntPow(10, -nd), 1)

(***************************************************************************)
(* eval_expr.  An expression is the tree ast.parse(expr, mode="eval").body *)
(* gives: records tagged by the node class t.                              *)
(***************************************************************************)
Constant(v) == [t |-> "Constant", value |-> v]
Name(id) == [t |-> "Name", id |-> id]
BinOp(l, op, r) == [t |-> "BinOp", left |-> l, op |-> op, right |-> r]
UnaryOp(op, e) == [t |-> "UnaryOp", op |-> op, operand |-> e]
Call(f, args, kw) == [t |-> "Call", func |-> f, args |-> args, keywords |-> kw]
Attribute(e, a) == [t |-> "Attribute", value |-> e, attr |-> a]
Compare(l, op, r) == [t |-> "Compare", left |-> l, op |-> op, right |-> r]

\* The keys of the table `operators`.
operators == {"Add", "Sub", "Mult", "Div", "Pow", "BitXor", "USub"}

apply_operator(op, args) ==
    CASE op = "Add"    -> py_add(args[1], args[2])
      [] op = "Sub"    -> py_sub(args[1], args[2])
      [] op = "Mult"   -> py_mul(args[1], args[2])
      [] op = "Div"    -> py_truediv(args[1], args[2])
      [] op = "Pow"    -> py_pow(args[1], args[2])
      [] op = "BitXor" -> py_xor(args[1], args[2])
      [] op = "USub"   -> py_neg(args[1])

\* The result of one _eval call: v is the value returned or the exception
\* raised, calls the functions the walk invoked on the way.
Res(v, calls) == [v |-> v, calls |-> calls]

RECURSIVE _eval(_, _)
RECURSIVE _eval_args(_, _, _, _)

\* [_eval(arg) for arg in args], left to right, stopping at the first
\* exception: vals holds the values so far, exc the exception (or None).
_eval_args(args, value, vals, calls) ==
    IF Len(vals) = Len(args) THEN [vals |-> vals, exc |-> None, calls |-> calls]
    ELSE LET r == _eval(args[Len(vals) + 1], value)
         IN  IF IsExc(r.v)
             THEN [vals |-> vals, exc |-> r.v, calls |-> calls \cup r.calls]
             ELSE _eval_args(args, value, Append(vals, r.v), calls \cup r.calls)

_eval(node, value) ==
    CASE node.t = "Constant" -> Res(node.value, {})
      [] node.t = "BinOp" ->
             IF node.op \notin operators THEN Res(Exc("KeyError"), {})
             ELSE LET a == _eval_args(<<node.left, node.right>>, value, <<>>, {})
                  IN  IF IsExc(a.exc) THEN Res(a.exc, a.calls)
                      ELSE Res(apply_operator(node.op, a.vals), a.calls)
      [] node.t = "UnaryOp" ->
             IF node.op \notin operators THEN Res(Exc("KeyError"), {})
             ELSE LET a == _eval(node.operand, value)
                  IN  IF IsExc(a.v) THEN a
                      ELSE Res(apply_operator(node.op, <<a.v>>), a.calls)
      [] node.t = "Name" ->
             IF node.id = "x" THEN Res(value, {}) ELSE Res(Exc("ValueError"), {})
      [] node.t = "Call" /\ node.func.t = "Name" /\ node.func.id = "round" ->
             LET a == _eval_args(node.args, value, <<>>, {})
             IN  IF IsExc(a.exc) THEN Res(a.exc, a.calls)
                 ELSE Res(py_round(a.vals), a.calls \cup {"round"})
      [] OTHER -> Res(Exc("TypeError"), {})

\* An evaluator that looks up and runs whatever callable the expression names.
eval_expr_general(expr, value) ==
    IF expr.t = "Call" /\ ~(expr.func.t = "Name" /\ expr.func.id = "round")
    THEN Res(PyInt(0), {expr.func})
    ELSE _eval(expr, value)

eval_expr(expr, value) == _eval(expr, value)

(***************************************************************************)
(* Inputs of eval_expr: the free variable's values and the expressions.    *)
(***************************************************************************)
MaxX == 5

DataError == Str(<<"DataError">>)

\* Values get_values can hand to eval_expr: ints and floats, and the sentinel
\* (the only non-null value of a result list that is no number).
XNumbers ==
    {PyInt(i) : i \in (-MaxX .. MaxX) \cup {10}}
        \cup {PyFloat(i, 1) : i \in (-MaxX .. MaxX) \cup {10}}
        \cup {PyFloat(5, 2)}
XValues == XNumbers \cup {DataError}

Atoms ==
    {Name("x"), Name("y"), Constant(PyInt(2)), Constant(PyInt(3)),
     Constant(Str(<<"a">>))}
BinOps == {"Add", "Sub", "Mult", "Div", "Pow", "BitXor", "Mod", "FloorDiv"}
UnaryOps == {"USub", "UAdd", "Not"}
OsSystem == Call(Attribute(Name("os"), "system"), <<Constant(Str(<<"x">>))>>, <<>>)
MinusOne == UnaryOp("USub", Constant(PyInt(1)))

\* Expressions of one operator or call over the atoms.  x is left out as an
\* exponent and as ndigits: x ** x and 10 ** x leave the 32-bit integers of
\* the model checker.
Level1 ==
    Atoms
        \cup {BinOp(a, op, b) : a \in Atoms, op \in BinOps \ {"Pow"}, b \in Atoms}
        \cup {BinOp(a, "Pow", b) : a \in Atoms, b \in Atoms \ {Name("x")}}
        \cup {UnaryOp(op, a) : op \in UnaryOps, a \in Atoms}
        \cup {Call(Name("round"), <<a>>, <<>>) : a \in Atoms}
        \cup {Call(Name("round"), <<a, b>>, <<>>) :
                 a \in Atoms, b \in (Atoms \ {Name("x")}) \cup {MinusOne}}
        \cup {Call(Name("abs"), <<a>>, <<>>) : a \in Atoms}
        \cup {Call(Name("round"), <<>>, <<>>),
              Call(Name("round"), <<Name("x"), Constant(PyInt(2)), Constant(PyInt(3))>>, <<>>),
              Call(Name("round"), <<Name("x")>>, <<[arg |-> "ndigits", value |-> OsSystem]>>),
              OsSystem,
              Attribute(Name("x"), "real"),
              Compare(Name("x"), "Lt", Constant(PyInt(2)))}

\* One more operator or call around a Level1 expression.
Level2 ==
    Level1
        \cup {BinOp(a, op, b) : a \in Level1, op \in {"Add", "Mult", "Mod"},
                                b \in {Name("x"), Constant(PyInt(1))}}
        \cup {BinOp(a, "Pow", MinusOne) : a \in Level1}
        \cup {UnaryOp("USub", a) : a \in Level1}
        \cup {Call(Name("round"), <<a, Constant(PyInt(2))>>, <<>>) : a \in Level1}

Exprs == Level2

\* "x*2+1" and "round(x/3,2)" as ast.parse returns them.
ExprXTimes2Plus1 ==
    BinOp(BinOp(Name("x"), "Mult", Constant(PyInt(2))), "Add", Constant(PyInt(1)))
ExprRoundXOver3 ==
    Call(Name("round"),
         <<BinOp(Name("x"), "Div", Constant(PyInt(3))), Constant(PyInt(2))>>, <<>>)

(***************************************************************************)
(* The workflow: run_workflow and the classes it drives.                   *)
(***************************************************************************)
MaxFeatures == 2
MaxDatasets == 2
\* The most values one run extracts: geometries times datasets.
MaxCells == 4

\* The result of a call: exc is the exception raised (None when it returned)
\* and ret what it returned.
Ret(v) == [exc |-> None, ret |-> v]
Raise(e) == [exc |-> Exc(e), ret |-> None]

GeometryKinds == {"Point", "Polygon", "LineString"}

\* AssetData.get_geometry_types over the list _list_geometry_types gives.
get_geometry_types(geom_type_list) ==
    IF geom_type_list = <<>> THEN Raise("ValueError")
    ELSE IF \E j \in 1 .. Len(geom_type_list) : geom_type_list[j] # geom_type_list[1]
         THEN Ret("Mixed")
         ELSE Ret(geom_type_list[1])

\* One feature of json_data["features"]; returned_values is absent (None)
\* until run_workflow sets it.
Feature(kind) == [geometry |-> kind, returned_values |-> None]

\* AssetData(source) for a source that downloads and parses into features of
\* the given geometry types.
AssetData(kinds) ==
    LET gt == get_geometry_types(kinds)
    IN  IF IsExc(gt.exc) THEN gt
        ELSE Ret([geometry_type |-> gt.ret,
                  features |-> [j \in 1 .. Len(kinds) |-> Feature(kinds[j])],
                  no_of_assets |-> Len(kinds)])

\* What the catalog holds for one search result: an item whose first allowed
\* asset opens, one whose asset fails to open, or one with no allowed asset;
\* sameday tells that it carries the calendar day of the item before it.
CatalogItems == [asset : {"opens", "fails", "none"}, sameday : BOOLEAN]
Catalogs ==
    UNION {{c \in [1 .. k -> CatalogItems] : k > 0 => ~c[1].sameday} : k \in 0 .. MaxDatasets}

RECURSIVE DayOf(_, _)
DayOf(items, j) ==
    IF j = 1 THEN 1
    ELSE DayOf(items, j - 1) + (IF items[j].sameday THEN 0 ELSE 1)

\* DatasetDetails.create_output_name without a template: dt.strftime("%Y-%m-%d").
create_output_name(dt) == "2024-02-0" \o ToString(dt.day)

\* datetime.isoformat()
isoformat(dt) == create_output_name(dt) \o "T0" \o ToString(dt.hour) \o ":00:00"

\* The descriptor of the j-th search result; url stands for the asset's href
\* and tells whether the resource behind it opens.
DatasetDetails(items, j) ==
    LET dt == [day |-> DayOf(items, j), hour |-> j]
    IN  [url |-> [item |-> j, ext |-> ".tif", readable |-> items[j].asset = "opens",
                  crs |-> "EPSG:4326"],
         datetime |-> dt,
         source_file_name |-> "asset" \o ToString(j),
         unit |-> "K",
         output_name |-> create_output_name(dt)]

\* get_asset_data_list: one entry per search result, None for an item
\* without an allowed asset.
get_asset_data_list(items) ==
    [j \in 1 .. Len(items) |->
        IF items[j].asset = "none" THEN None ELSE DatasetDetails(items, j)]

\* DatasetDataArray.determine_file_type, from the ending of the url.
determine_file_type(url) ==
    CASE url.ext \in {".tif", ".tiff"} -> "GeoTIFF"
      [] url.ext = ".json" -> "JSON"
      [] url.ext = ".nc" -> "NetCDF"
      [] OTHER -> "Unknown"

\* DatasetDataArray(dataset_details, variable).ds: open_dataset by file type.
\* An unknown type raises ValueError, a resource that does not read raises
\* from the library; a grid without a CRS gets EPSG:4326 (no crs is passed
\* in extra_args).  url.crs is the CRS the resource embeds, "" for none.
DatasetDataArray(dataset_details, variable) ==
    LET url == dataset_details.url
        file_type == determine_file_type(url)
    IN  IF file_type = "Unknown"
        THEN [exc |-> [k |-> "exc", e |-> "ValueError",
                       msg |-> <<"Unsupported file type: ", file_type>>],
              ret |-> None]
        ELSE IF ~url.readable THEN Raise("OSError")
        ELSE Ret([k |-> "grid", item |-> url.item, variable |-> variable,
                  crs |-> IF url.crs = "" THEN "EPSG:4326" ELSE url.crs])

\* ValueExtractor.load_dataset: the grid DatasetDataArray opens, None
\* whenever opening raises (a None descriptor raises AttributeError).
load_dataset(dataset_details, variable) ==
    IF dataset_details = None THEN None
    ELSE IF IsExc(DatasetDataArray(dataset_details, variable).exc) THEN None
    ELSE DatasetDataArray(dataset_details, variable).ret

\* The number the grid holds at (or averaged over) the j-th geometry.
GridCell(grid, j) ==
    IF grid.variable = "lst_uncertainty" THEN PyFloat(1, 2)
    ELSE PyFloat(2 * grid.item + (j - 1), 1)

\* str(v) == "nan"
IsNanString(v) == v.k = "nan" \/ (v.k = "str" /\ v.s = <<"nan">>)
NanToNone(values) ==
    [j \in 1 .. Len(values) |-> IF IsNanString(values[j]) THEN None ELSE values[j]]
NoneList(n) == [j \in 1 .. n |-> None]

\* What sampling a grid at n points can do: the index keys it has, whether
\* sel raises, and per point a number or NaN.
PointEnvs(n) ==
    [index_keys : {"lat_lon", "y_x", "other"}, sel : {"ok", "raises"},
     cells : [1 .. n -> {"ok", "nan"}]]

\* What clipping a grid to one geometry can do.
ClipOutcomes == {"ok", "nan", "ClientResponseError", "NoDataInBounds", "Exception"}
ClipEnvs(n) == [1 .. n -> ClipOutcomes]

\* The fault of a point lookup, "none" when it samples.
PointFault(dataset, env) ==
    IF dataset = None THEN "no_grid"
    ELSE IF env.index_keys = "other" THEN "index_keys"
    ELSE IF env.sel = "raises" THEN "sel"
    ELSE "none"

\* get_values_points without its try/except: a missing grid raises.
get_values_points_unguarded(dataset, n, env) ==
    IF dataset = None
    THEN [exc |-> Exc("AttributeError"), ret |-> None, done |-> 0]
    ELSE [exc |-> None,
          ret |-> NanToNone([j \in 1 .. n |->
                     IF PointFault(dataset, env) # "none" THEN None
                     ELSE IF env.cells[j] = "nan" THEN NaN ELSE GridCell(dataset, j)]),
          done |-> n]

\* get_values_points without the NaN normalisation.
get_values_points_raw(dataset, n, env) ==
    [exc |-> None,
     ret |-> IF PointFault(dataset, env) # "none" THEN NoneList(n)
             ELSE [j \in 1 .. n |->
                      IF env.cells[j] = "nan" THEN NaN ELSE GridCell(dataset, j)],
     done |-> n]

\* ValueExtractor.get_values_points
get_values_points(dataset, n, env) ==
    LET values ==
            IF PointFault(dataset, env) # "none" THEN NoneList(n)
            ELSE [j \in 1 .. n |->
                     IF env.cells[j] = "nan" THEN NaN ELSE GridCell(dataset, j)]
    IN  [exc |-> None, ret |-> NanToNone(values), done |-> n]

\* The outcome of the clip of geometry j: a missing grid raises
\* AttributeError at self.dataset.rio.
Clip(dataset, env, j) == IF dataset = None THEN "Exception" ELSE env[j]

\* ValueExtractor.get_values_polygons: the loop over the rows, results the
\* list so far.
RECURSIVE polygons_loop(_, _, _, _)
polygons_loop(dataset, n, env, results) ==
    IF Len(results) = n THEN results
    ELSE LET j == Len(results) + 1
             c == Clip(dataset, env, j)
             r == CASE c = "ok" -> GridCell(dataset, j)
                    [] c = "nan" -> NaN
                    [] c = "ClientResponseError" -> DataError
                    [] c = "NoDataInBounds" -> None
                    [] c = "Exception" -> None
         IN  polygons_loop(dataset, n, env, Append(results, r))

get_values_polygons(dataset, n, env) ==
    [exc |-> None, ret |-> NanToNone(polygons_loop(dataset, n, env, <<>>)), done |-> n]

\* ValueExtractor.get_values_lines: the same loop with no handler for other
\* exceptions, which leave the loop and the method.
RECURSIVE lines_loop(_, _, _, _)
lines_loop(dataset, n, env, results) ==
    IF Len(results) = n THEN [exc |-> None, results |-> results]
    ELSE LET j == Len(results) + 1
             c == Clip(dataset, env, j)
         IN  IF c = "Exception"
             THEN [exc |-> Exc(IF dataset = None THEN "AttributeError" ELSE "Exception"),
                   results |-> results]
             ELSE lines_loop(dataset, n, env,
                      Append(results,
                          CASE c = "ok" -> GridCell(dataset, j)
                            [] c = "nan" -> NaN
                            [] c = "ClientResponseError" -> DataError
                            [] c = "NoDataInBounds" -> None))

get_values_lines(dataset, n, env) ==
    LET l == lines_loop(dataset, n, env, <<>>)
    IN  IF IsExc(l.exc) THEN [exc |-> l.exc, ret |-> None, done |-> Len(l.results)]
        ELSE [exc |-> None, ret |-> NanToNone(l.results), done |-> n]

\* The keys of geometry_type_to_function.
geometry_type_to_function == {"Point", "Polygon", "LineString"}

\* apply_expression without the None test.
apply_expression_to_all(expression, result) ==
    [j \in 1 .. Len(result) |-> eval_expr(expression, result[j]).v]

\* The expression step of get_values over a method's result.
apply_expression(expression, result) ==
    [j \in 1 .. Len(result) |->
        IF result[j] # None THEN eval_expr(expression, result[j]).v ELSE None]

FirstExc(values) ==
    values[CHOOSE j \in 1 .. Len(values) :
              IsExc(values[j]) /\ \A h \in 1 .. j - 1 : ~IsExc(values[h])]

\* ValueExtractor.get_values.  The record tells what the call did: handler
\* whether a method ran, raw what the method returned, ret what get_values
\* returned, exc the exception that left it, done the geometries the method
\* got through.
get_values(geometry_type, dataset, n, env, expression) ==
    IF geometry_type \notin geometry_type_to_function
    THEN [handler |-> FALSE, raw |-> None, done |-> 0, exc |-> Exc("KeyError"), ret |-> None]
    ELSE LET m == CASE geometry_type = "Point" -> get_values_points(dataset, n, env)
                    [] geometry_type = "Polygon" -> get_values_polygons(dataset, n, env)
                    [] geometry_type = "LineString" -> get_values_lines(dataset, n, env)
         IN  IF IsExc(m.exc)
             THEN [handler |-> TRUE, raw |-> None, done |-> m.done, exc |-> m.exc, ret |-> None]
             ELSE IF expression # None
             THEN LET r == apply_expression(expression, m.ret)
                  IN  IF \E j \in 1 .. Len(r) : IsExc(r[j])
                      THEN [handler |-> TRUE, raw |-> m.ret, done |-> m.done,
                            exc |-> FirstExc(r), ret |-> None]
                      ELSE [handler |-> TRUE, raw |-> m.ret, done |-> m.done,
                            exc |-> None, ret |-> r]
             ELSE [handler |-> TRUE, raw |-> m.ret, done |-> m.done,
                   exc |-> None, ret |-> m.ret]

\* dict.update on returned_values[key]
SetKey(d, key, entry) == [q \in DOMAIN d \cup {key} |-> IF q = key THEN entry ELSE d[q]]
EmptyDict == [q \in {} |-> None]

\* DatasetsValueExtractor._update_asset_properties
_update_asset_properties(features, index, dataset_details, result, output_name_suffix) ==
    LET output_name == dataset_details.output_name \o output_name_suffix
    IN  [features EXCEPT ![index].returned_values =
            SetKey(@, output_name,
                   [value |-> result,
                    datetime |-> isoformat(dataset_details.datetime),
                    unit |-> dataset_details.unit,
                    file_name |-> dataset_details.source_file_name,
                    key |-> output_name])]

RECURSIVE update_loop(_, _, _, _, _)
update_loop(features, results, dataset_details, suffix, index) ==
    IF index > Len(results) THEN features
    ELSE update_loop(
             _update_asset_properties(features, index, dataset_details, results[index], suffix),
             results, dataset_details, suffix, index + 1)

\* _update_asset_properties_caller with the suffix left as it was given.
_update_asset_properties_caller_plain(assets, results, dataset_details, output_name_suffix) ==
    IF Len(results) = 0 THEN Ret(assets.features)
    ELSE IF dataset_details = None THEN Raise("AttributeError")
    ELSE Ret(update_loop(assets.features, results, dataset_details, output_name_suffix, 1))

\* DatasetsValueExtractor._update_asset_properties_caller; a None descriptor
\* raises AttributeError at its first use.
_update_asset_properties_caller(assets, results, dataset_details, output_name_suffix) ==
    LET suffix == IF assets.geometry_type # "Point"
                  THEN output_name_suffix \o "_average" ELSE output_name_suffix
    IN  IF Len(results) = 0 THEN Ret(assets.features)
        ELSE IF dataset_details = None THEN Raise("AttributeError")
        ELSE Ret(update_loop(assets.features, results, dataset_details, suffix, 1))

\* a <= b on numbers
NumLe(a, b) == a.n * b.d <= b.n * a.d

RECURSIVE SumValues(_, _)
SumValues(d, keys) ==
    IF keys = {} THEN PyFloat(0, 1)
    ELSE LET q == CHOOSE q \in keys : TRUE
         IN  py_add(d[q], SumValues(d, keys \ {q}))

\* The square root of a number, kept symbolic unless it is 0.
Sqrt(v) == IF v.n = 0 THEN PyFloat(0, 1) ELSE [k |-> "sqrt", n |-> v.n, d |-> v.d]

\* a <= b on numbers and square roots (a square root is never negative).
ValLe(a, b) ==
    CASE a.k = "num" /\ b.k = "num" -> NumLe(a, b)
      [] a.k = "sqrt" /\ b.k = "num" -> b.n >= 0 /\ a.n * b.d * b.d <= b.n * b.n * a.d
      [] a.k = "num" /\ b.k = "sqrt" -> a.n <= 0 \/ a.n * a.n * b.d <= b.n * a.d * a.d
      [] OTHER -> a.n * b.d <= b.n * a.d

\* float(v) of a value of the list.
AsFloat(v) == IF v.k = "num" THEN PyFloat(v.n, v.d) ELSE v

\* The statistics of one feature: min, max, np.mean and np.std of the
\* non-None values of returned_values.  A string among the values raises.
\* With an irrational among the values the mean and the deviation are floats
\* that are not tracked.
feature_statistics(returned_values) ==
    LET keys == {q \in DOMAIN returned_values : returned_values[q].value # None}
        vals == [q \in keys |-> returned_values[q].value]
        count == PyInt(Cardinality(keys))
        exact == \A q \in keys : vals[q].k = "num"
        mean == py_truediv(SumValues(vals, keys), count)
        sq == [q \in keys |-> py_mul(py_sub(vals[q], mean), py_sub(vals[q], mean))]
    IN  IF keys = {}
        THEN Ret([MINIMUM |-> None, MAXIMUM |-> None, MEAN |-> None,
                  STANDARD_DEVIATION |-> None])
        ELSE IF \A q \in keys : vals[q].k = "str" THEN Raise("ValueError")
        ELSE IF \E q \in keys : vals[q].k = "str" THEN Raise("TypeError")
        ELSE Ret([MINIMUM |-> AsFloat(vals[CHOOSE q \in keys :
                                        \A r \in keys : ValLe(vals[q], vals[r])]),
                  MAXIMUM |-> AsFloat(vals[CHOOSE q \in keys :
                                        \A r \in keys : ValLe(vals[r], vals[q])]),
                  MEAN |-> IF exact THEN mean ELSE Inexact,
                  STANDARD_DEVIATION |->
                      IF exact THEN Sqrt(py_truediv(SumValues(sq, keys), count))
                      ELSE Inexact])

StatNames == {"MINIMUM", "MAXIMUM", "MEAN", "STANDARD_DEVIATION"}

\* DatasetsValueExtractor.add_summary_statistics: every feature in turn; the
\* first exception leaves the loop.
add_summary_statistics(features) ==
    IF \E j \in 1 .. Len(features) : IsExc(feature_statistics(features[j].returned_values).exc)
    THEN LET j == CHOOSE j \in 1 .. Len(features) :
                      IsExc(feature_statistics(features[j].returned_values).exc)
         IN  [exc |-> feature_statistics(features[j].returned_values).exc, ret |-> None]
    ELSE Ret([j \in 1 .. Len(features) |->
                 LET rv == features[j].returned_values
                     stats == feature_statistics(rv).ret
                 IN  [features[j] EXCEPT !.returned_values =
                         [q \in DOMAIN rv \cup StatNames |->
                             IF q \in StatNames
                             THEN [value |-> stats[q], type |-> "statistic", key |-> q]
                             ELSE rv[q]]]])

\* The expression of get_min_max_values_for_dataset: "x-273.15".
ExprKelvinToCelsius ==
    BinOp(Name("x"), "Sub", Constant(PyFloat(27315, 100)))

\* The arguments of a run.  variable "" stands for an absent (falsy) one.
\* get_min_max_values reads neither variable nor expression.
ExpressionChoices == {None, ExprXTimes2Plus1, OsSystem}
ArgsChoices ==
    {a \in [output_type : {"values", "min_max"}, variable : {"lst", ""},
            expression : ExpressionChoices] :
        a.output_type = "min_max" => (a.variable = "" /\ a.expression = None)}

NoExtraction == [st |-> "none"]

VARIABLES
    pc,              \* the place run_workflow has reached
    args,            \* the parsed arguments
    stac_results,    \* stac_search.results, as catalog items
    asset_data_list, \* the descriptors get_asset_data_list returned
    assets,          \* spatial_data: geometry_type and json_data["features"]
    idx,             \* the dataset the loop over dataset_details_list is at
    cur,             \* the extraction in progress: what get_values did
    responses,       \* the WorkflowResponse objects constructed, in order
    raised,          \* run_workflow raised RuntimeError to its caller
    opened,          \* how many times load_dataset has run
    sampling_faults  \* the datasets whose grid opened and then failed to give
                     \* a number for some geometry

vars == <<pc, args, stac_results, asset_data_list, assets, idx, cur, responses,
          raised, opened, sampling_faults>>

\* A call of eval_expr on its own: its place, its arguments and its result.
VARIABLES epc, e_expr, e_x, e_result

evars == <<epc, e_expr, e_x, e_result>>

\* A call of one function on its own: its place, its argument and what it
\* gave.
VARIABLES cpc, c_in, c_out

cvars == <<cpc, c_in, c_out>>

\* No call of a function on its own is under way.
CallIdle ==
    /\ cpc = "idle"
    /\ c_in = None
    /\ c_out = None

EvalStart ==
    /\ epc = "call"
    /\ e_expr \in Exprs
    /\ e_x \in XValues
    /\ e_result = Res(None, {})

\* No call of eval_expr on its own is under way.
EvalIdle ==
    /\ epc = "idle"
    /\ e_expr = None
    /\ e_x = None
    /\ e_result = Res(None, {})

\* One call eval_expr(e_expr, e_x): it returns a value or raises.
EvalReturns ==
    /\ epc = "call"
    /\ ~IsExc(eval_expr(e_expr, e_x).v)
    /\ e_result' = eval_expr(e_expr, e_x)
    /\ epc' = "returned"
    /\ UNCHANGED <<e_expr, e_x>>
    /\ UNCHANGED <<vars, cvars>>

EvalRaises ==
    /\ epc = "call"
    /\ IsExc(eval_expr(e_expr, e_x).v)
    /\ e_result' = eval_expr(e_expr, e_x)
    /\ epc' = "raised"
    /\ UNCHANGED <<e_expr, e_x>>
    /\ UNCHANGED <<vars, cvars>>


NoAssets == [geometry_type |-> "", features |-> <<>>, no_of_assets |-> 0]

WorkflowStart ==
    /\ pc = "start"
    /\ args \in ArgsChoices
    /\ stac_results = <<>>
    /\ asset_data_list = <<>>
    /\ assets = NoAssets
    /\ idx = 0
    /\ cur = NoExtraction
    /\ responses = <<>>
    /\ raised = FALSE
    /\ opened = 0
    /\ sampling_faults = {}

\* No run of the workflow is under way.
WorkflowIdle ==
    /\ pc = "idle"
    /\ args = [output_type |-> "values", variable |-> "", expression |-> None]
    /\ stac_results = <<>>
    /\ asset_data_list = <<>>
    /\ assets = NoAssets
    /\ idx = 0
    /\ cur = NoExtraction
    /\ responses = <<>>
    /\ raised = FALSE
    /\ opened = 0
    /\ sampling_faults = {}

Init == WorkflowStart /\ EvalIdle /\ CallIdle

\* run_workflow raised without carrying the error out in a response.
FailSilently(msg) ==
    /\ responses' = responses
    /\ raised' = TRUE
    /\ pc' = "done"

\* The except branch of run_workflow: the error response, then RuntimeError.
Fail(msg) ==
    /\ responses' = Append(responses,
                        [status |-> "error", out_file |-> "./error.txt", error_msg |-> msg])
    /\ raised' = TRUE
    /\ pc' = "done"

\* process_stac_search: the search raises, finds nothing, or returns items.
process_stac_search ==
    /\ pc = "start"
    /\ \/ /\ Fail("STAC search failed: " \o "connection")
          /\ UNCHANGED <<args, stac_results, asset_data_list, assets, idx, cur, opened>>
       \/ \E c \in Catalogs :
            IF Len(c) = 0
            THEN /\ Fail("STAC search failed: No STAC items found matching the criteria")
                 /\ UNCHANGED <<args, stac_results, asset_data_list, assets, idx, cur, opened>>
            ELSE /\ stac_results' = c
                 /\ pc' = "assets"
                 /\ UNCHANGED <<args, asset_data_list, assets, idx, cur, responses,
                                raised, opened>>
    /\ UNCHANGED sampling_faults
    /\ UNCHANGED <<evars, cvars>>

\* process_asset_data: AssetData(args.assets) fails to download or parse the
\* source, finds no geometry type, or loads the features.
process_asset_data ==
    /\ pc = "assets"
    /\ \/ /\ Fail("Failed to process asset data: " \o "download")
          /\ UNCHANGED <<args, stac_results, asset_data_list, assets, idx, cur, opened>>
       \/ \E n \in {m \in 0 .. MaxFeatures : m * Len(stac_results) <= MaxCells} :
          \E kinds \in [1 .. n -> GeometryKinds] :
            LET a == AssetData(kinds)
            IN  IF IsExc(a.exc)
                THEN /\ Fail("Failed to process asset data: No geometry types found")
                     /\ UNCHANGED <<args, stac_results, asset_data_list, assets, idx, cur,
                                    opened>>
                ELSE /\ assets' = a.ret
                     /\ pc' = "resolve"
                     /\ UNCHANGED <<args, stac_results, asset_data_list, idx, cur,
                                    responses, raised, opened>>
    /\ UNCHANGED sampling_faults
    /\ UNCHANGED <<evars, cvars>>

\* get_asset_data_list(stac_search.results): fetching an item raises, or
\* every item gives its entry.
resolve_asset_data_list ==
    /\ pc = "resolve"
    /\ \/ /\ Fail("Error opening " \o "item")
          /\ UNCHANGED <<args, stac_results, asset_data_list, assets, idx, cur, opened>>
       \/ /\ asset_data_list' = get_asset_data_list(stac_results)
          /\ pc' = "features"
          /\ UNCHANGED <<args, stac_results, assets, idx, cur, responses, raised, opened>>
    /\ UNCHANGED sampling_faults
    /\ UNCHANGED <<evars, cvars>>

\* The loop over dve.assets.json_data["features"] that gives every feature an
\* id and an empty returned_values, and the choice of the output type.
init_features ==
    /\ pc = "features"
    /\ LET fs == [j \in 1 .. Len(assets.features) |->
                     [assets.features[j] EXCEPT !.returned_values = EmptyDict]]
       IN  IF args.output_type = "min_max"
           THEN /\ assets' = [assets EXCEPT !.features = fs]
                /\ pc' = "min_max"
                /\ idx' = 1
                /\ UNCHANGED <<responses, raised>>
           ELSE IF args.variable = ""
           THEN /\ assets' = [assets EXCEPT !.features = fs]
                /\ Fail("Variable must be specified for value extraction")
                /\ UNCHANGED idx
           ELSE /\ assets' = [assets EXCEPT !.features = fs]
                /\ pc' = "values"
                /\ idx' = 1
                /\ UNCHANGED <<responses, raised>>
    /\ UNCHANGED <<args, stac_results, asset_data_list, cur, opened>>
    /\ UNCHANGED sampling_faults
    /\ UNCHANGED <<evars, cvars>>

\* The loop has left its last dataset behind after one pass only.
loop_over_early(index, dataset_details_list) == index > 1

\* for dataset_details in self.dataset_details_list: the loop is over.
loop_over(index, dataset_details_list) == index > Len(dataset_details_list)

\* What the raster library can do in one extraction over n geometries.
Envs(geometry_type, n) ==
    IF geometry_type = "Point" THEN PointEnvs(n) ELSE ClipEnvs(n)

\* The raster gave no number for some geometry of an opened grid.
Faulted(geometry_type, dataset, n, env) ==
    /\ dataset # None
    /\ IF geometry_type = "Point"
       THEN PointFault(dataset, env) # "none" \/ \E j \in 1 .. n : env.cells[j] # "ok"
       ELSE \E j \in 1 .. n : env[j] # "ok"

\* The record of one ValueExtractor(...).get_values() call: what it was given,
\* what it did, and (in get_min_max_values_for_dataset) the lst values
\* obtained before it.
Extraction(variable, dataset, env, expression, g, lst_values) ==
    [st |-> IF IsExc(g.exc) THEN "raised" ELSE "returned",
     variable |-> variable, dataset |-> dataset, env |-> env,
     expression |-> expression, values |-> g, lst_values |-> lst_values]

\* The first half of get_values_for_dataset: ValueExtractor(...) loads the
\* dataset and get_values() runs.
get_values_for_dataset ==
    /\ pc = "values"
    /\ cur = NoExtraction
    /\ ~loop_over(idx, asset_data_list)
    /\ opened' = opened + 1
    /\ \E env \in Envs(assets.geometry_type, assets.no_of_assets) :
         LET dataset == load_dataset(asset_data_list[idx], args.variable)
             g == get_values(assets.geometry_type, dataset, assets.no_of_assets, env,
                             args.expression)
         IN  /\ cur' = Extraction(args.variable, dataset, env, args.expression, g, None)
             /\ sampling_faults' =
                    IF Faulted(assets.geometry_type, dataset, assets.no_of_assets, env)
                    THEN sampling_faults \cup {idx} ELSE sampling_faults
             /\ IF IsExc(g.exc)
                THEN Fail(g.exc.e)
                ELSE UNCHANGED <<pc, responses, raised>>
    /\ UNCHANGED <<args, stac_results, asset_data_list, assets, idx>>
    /\ UNCHANGED <<evars, cvars>>

\* The second half: _update_asset_properties_caller writes the results.
update_asset_properties ==
    /\ pc = "values"
    /\ cur.st = "returned"
    /\ LET u == _update_asset_properties_caller(assets, cur.values.ret,
                                                asset_data_list[idx], "")
       IN  IF IsExc(u.exc)
           THEN /\ Fail(u.exc.e)
                /\ UNCHANGED <<assets, idx, cur>>
           ELSE /\ assets' = [assets EXCEPT !.features = u.ret]
                /\ idx' = idx + 1
                /\ cur' = NoExtraction
                /\ UNCHANGED <<pc, responses, raised>>
    /\ UNCHANGED <<args, stac_results, asset_data_list, opened>>
    /\ UNCHANGED sampling_faults
    /\ UNCHANGED <<evars, cvars>>

\* (a op b) if a is not None and b is not None else None, over the zip.
min_max_combine(op, lst_values, lst_uncertainty_values) ==
    [j \in 1 .. Len(lst_values) |->
        IF lst_values[j] # None /\ lst_uncertainty_values[j] # None
        THEN IF op = "sub" THEN py_sub(lst_values[j], lst_uncertainty_values[j])
             ELSE py_add(lst_values[j], lst_uncertainty_values[j])
        ELSE None]

\* The two lists the last get_min_max_values_for_dataset call derived its
\* values from, once it has written them.
Derivation(lst_values, lst_uncertainty_values) ==
    [st |-> "written", lst_values |-> lst_values,
     lst_uncertainty_values |-> lst_uncertainty_values]

\* get_min_max_values_for_dataset: both extractors load their dataset, then
\* lst_value_extractor.get_values() runs.
min_max_lst_values ==
    /\ pc = "min_max"
    /\ cur.st \in {"none", "written"}
    /\ ~loop_over(idx, asset_data_list)
    /\ opened' = opened + 2
    /\ \E env \in Envs(assets.geometry_type, assets.no_of_assets) :
         LET dataset == load_dataset(asset_data_list[idx], "lst")
             g == get_values(assets.geometry_type, dataset, assets.no_of_assets, env,
                             ExprKelvinToCelsius)
         IN  /\ cur' = Extraction("lst", dataset, env, ExprKelvinToCelsius, g, None)
             /\ sampling_faults' =
                    IF Faulted(assets.geometry_type, dataset, assets.no_of_assets, env)
                    THEN sampling_faults \cup {idx} ELSE sampling_faults
             /\ IF IsExc(g.exc)
                THEN Fail(g.exc.e)
                ELSE UNCHANGED <<pc, responses, raised>>
    /\ UNCHANGED <<args, stac_results, asset_data_list, assets, idx>>
    /\ UNCHANGED <<evars, cvars>>

\* lst_uncertainty_value_extractor.get_values()
min_max_uncertainty_values ==
    /\ pc = "min_max"
    /\ cur.st = "returned"
    /\ cur.variable = "lst"
    /\ \E env \in Envs(assets.geometry_type, assets.no_of_assets) :
         LET dataset == load_dataset(asset_data_list[idx], "lst_uncertainty")
             g == get_values(assets.geometry_type, dataset, assets.no_of_assets, env, None)
         IN  /\ cur' = Extraction("lst_uncertainty", dataset, env, None, g, cur.values.ret)
             /\ sampling_faults' =
                    IF Faulted(assets.geometry_type, dataset, assets.no_of_assets, env)
                    THEN sampling_faults \cup {idx} ELSE sampling_faults
             /\ IF IsExc(g.exc)
                THEN Fail(g.exc.e)
                ELSE UNCHANGED <<pc, responses, raised>>
    /\ UNCHANGED <<args, stac_results, asset_data_list, assets, idx, opened>>
    /\ UNCHANGED <<evars, cvars>>

\* min_values and max_values, and the two writes under the suffixed keys.
min_max_update ==
    /\ pc = "min_max"
    /\ cur.st = "returned"
    /\ cur.variable = "lst_uncertainty"
    /\ LET min_values == min_max_combine("sub", cur.lst_values, cur.values.ret)
           max_values == min_max_combine("add", cur.lst_values, cur.values.ret)
           bad == {j \in 1 .. Len(min_values) : IsExc(min_values[j])}
           u1 == _update_asset_properties_caller(assets, min_values, asset_data_list[idx],
                                                 "_minus_uncertainty")
           u2 == _update_asset_properties_caller([assets EXCEPT !.features = u1.ret],
                                                 max_values, asset_data_list[idx],
                                                 "_plus_uncertainty")
       IN  IF bad # {}
           THEN /\ Fail(FirstExc(min_values).e)
                /\ UNCHANGED <<assets, idx, cur>>
           ELSE IF IsExc(u1.exc)
           THEN /\ Fail(u1.exc.e)
                /\ UNCHANGED <<assets, idx, cur>>
           ELSE /\ assets' = [assets EXCEPT !.features = u2.ret]
                /\ idx' = idx + 1
                /\ cur' = Derivation(cur.lst_values, cur.values.ret)
                /\ UNCHANGED <<pc, responses, raised>>
    /\ UNCHANGED <<args, stac_results, asset_data_list, opened>>
    /\ UNCHANGED sampling_faults
    /\ UNCHANGED <<evars, cvars>>

\* add_summary_statistics once the loop over the datasets is over.
summary_statistics ==
    /\ pc \in {"values", "min_max"}
    /\ cur.st \in {"none", "written"}
    /\ loop_over(idx, asset_data_list)
    /\ LET r == add_summary_statistics(assets.features)
       IN  IF IsExc(r.exc)
           THEN /\ Fail(r.exc.e)
                /\ UNCHANGED assets
           ELSE /\ assets' = [assets EXCEPT !.features = r.ret]
                /\ pc' = "respond"
                /\ UNCHANGED <<responses, raised>>
    /\ UNCHANGED <<args, stac_results, asset_data_list, idx, cur, opened>>
    /\ UNCHANGED sampling_faults
    /\ UNCHANGED <<evars, cvars>>

\* WorkflowResponse(return_values=..., status=SUCCESS): data.csv and its catalog.
success_response ==
    /\ pc = "respond"
    /\ responses' = Append(responses,
                        [status |-> "success", out_file |-> "./data.csv", error_msg |-> ""])
    /\ pc' = "done"
    /\ UNCHANGED <<args, stac_results, asset_data_list, assets, idx, cur, raised, opened>>
    /\ UNCHANGED sampling_faults
    /\ UNCHANGED <<evars, cvars>>

Run ==
    \/ process_stac_search
    \/ process_asset_data
    \/ resolve_asset_data_list
    \/ init_features
    \/ get_values_for_dataset
    \/ update_asset_properties
    \/ min_max_lst_values
    \/ min_max_uncertainty_values
    \/ min_max_update
    \/ summary_statistics
    \/ success_response

Next == Run

\* One run of the workflow.
Spec == Init /\ [][Next]_<<vars, evars, cvars>>

InitEval == EvalStart /\ WorkflowIdle /\ CallIdle

NextEval == EvalReturns \/ EvalRaises

\* One call of eval_expr.
SpecEval == InitEval /\ [][NextEval]_<<vars, evars, cvars>>

(***************************************************************************)
(* The grammar of the expression evaluator.                                *)
(***************************************************************************)
RECURSIVE InStatedGrammar(_)
\* The grammar as documented: x, numeric constants, + - * / **, unary
\* negation, round(value[, ndigits]).
InStatedGrammar(node) ==
    CASE node.t = "Constant" -> node.value.k = "num"
      [] node.t = "Name" -> node.id = "x"
      [] node.t = "BinOp" ->
             /\ node.op \in {"Add", "Sub", "Mult", "Div", "Pow"}
             /\ InStatedGrammar(node.left)
             /\ InStatedGrammar(node.right)
      [] node.t = "UnaryOp" -> node.op = "USub" /\ InStatedGrammar(node.operand)
      [] node.t = "Call" ->
             /\ node.func = Name("round")
             /\ Len(node.args) \in {1, 2}
             /\ node.keywords = <<>>
             /\ \A i \in 1 .. Len(node.args) : InStatedGrammar(node.args[i])
      [] OTHER -> FALSE

RECURSIVE InWalkedGrammar(_)
\* The stated grammar widened by the binary ^, by constants of any type and
\* by keyword arguments of round, which the walk never visits.
InWalkedGrammar(node) ==
    CASE node.t = "Constant" -> TRUE
      [] node.t = "Name" -> node.id = "x"
      [] node.t = "BinOp" ->
             /\ node.op \in {"Add", "Sub", "Mult", "Div", "Pow", "BitXor"}
             /\ InWalkedGrammar(node.left)
             /\ InWalkedGrammar(node.right)
      [] node.t = "UnaryOp" -> node.op = "USub" /\ InWalkedGrammar(node.operand)
      [] node.t = "Call" ->
             /\ node.func = Name("round")
             /\ \A i \in 1 .. Len(node.args) : InWalkedGrammar(node.args[i])
      [] OTHER -> FALSE

RECURSIVE RoundFree(_)
RoundFree(node) ==
    CASE node.t = "BinOp" -> RoundFree(node.left) /\ RoundFree(node.right)
      [] node.t = "UnaryOp" -> RoundFree(node.operand)
      [] node.t = "Call" -> FALSE
      [] OTHER -> TRUE

Undefined == <<0, 0>>

RECURSIVE RefFrac(_, _)
RefFrac(node, x) ==
    CASE node.t = "Constant" -> <<node.value.n, node.value.d>>
      [] node.t = "Name" -> <<x.n, x.d>>
      [] node.t = "UnaryOp" ->
             LET a == RefFrac(node.operand, x)
             IN  IF a[2] = 0 THEN Undefined ELSE <<0 - a[1], a[2]>>
      [] node.t = "BinOp" ->
             LET l == RefFrac(node.left, x)
                 r == RefFrac(node.right, x)
             IN  IF l[2] = 0 \/ r[2] = 0 THEN Undefined
                 ELSE CASE node.op = "Add" -> <<l[1] * r[2] + r[1] * l[2], l[2] * r[2]>>
                        [] node.op = "Sub" -> <<l[1] * r[2] - r[1] * l[2], l[2] * r[2]>>
                        [] node.op = "Mult" -> <<l[1] * r[1], l[2] * r[2]>>
                        [] node.op = "Div" ->
                               IF r[1] = 0 THEN Undefined ELSE <<l[1] * r[2], l[2] * r[1]>>
                        [] node.op = "Pow" ->
                               \* the exponents of Exprs are integers
                               LET e == r[1] \div r[2]
                               IN  IF e >= 0 THEN <<IntPow(l[1], e), IntPow(l[2], e)>>
                                   ELSE IF l[1] = 0 THEN Undefined
                                   ELSE <<IntPow(l[2], 0 - e), IntPow(l[1], 0 - e)>>

\* The number v is the fraction f.
IsFrac(v, f) == v.k = "num" /\ v.n * f[2] = f[1] * v.d

\* The number v is the fraction f rounded to nd decimal digits: a multiple
\* of 10^-nd at most half a unit away.
IsRounded(v, f, nd) ==
    /\ v.k = "num"
    /\ IF nd >= 0
       THEN /\ (v.n * IntPow(10, nd)) % v.d = 0
            /\ 2 * Abs(v.n * f[2] - f[1] * v.d) * IntPow(10, nd) <= Abs(f[2]) * v.d
       ELSE /\ v.d = 1 /\ v.n % IntPow(10, 0 - nd) = 0
            /\ 2 * Abs(v.n * f[2] - f[1] * v.d) <= Abs(f[2]) * v.d * IntPow(10, 0 - nd)

\* The ndigits a round call of the stated grammar asks for (a constant or -1).
Ndigits(node) ==
    IF Len(node.args) = 1 THEN 0
    ELSE IF node.args[2].t = "Constant" THEN node.args[2].value.n
    ELSE 0 - node.args[2].operand.value.n

\* C9: for an expression of the stated grammar and a numeric x, eval_expr
\* returns the number the arithmetic denotes at x (ZeroDivisionError where it
\* denotes none); a round call returns its argument rounded to ndigits;
\* "x*2+1" at x is 2x+1 (7 at 3) and "round(x/3,2)" at 10 is 3.33.
C9_EvalIsArithmetic ==
    (epc # "call" /\ InStatedGrammar(e_expr) /\ e_x \in XNumbers) =>
        /\ RoundFree(e_expr) =>
               IF RefFrac(e_expr, e_x) = Undefined
               THEN e_result.v = Exc("ZeroDivisionError")
               ELSE epc = "returned" /\ IsFrac(e_result.v, RefFrac(e_expr, e_x))
        /\ (/\ e_expr.t = "Call"
            /\ RoundFree(e_expr.args[1])
            /\ RefFrac(e_expr.args[1], e_x) # Undefined
            /\ Len(e_expr.args) = 2 => e_expr.args[2] \in {Constant(PyInt(2)), Constant(PyInt(3)), MinusOne})
               => /\ epc = "returned"
                  /\ IsRounded(e_result.v, RefFrac(e_expr.args[1], e_x), Ndigits(e_expr))
        /\ e_expr = ExprXTimes2Plus1 =>
               IsFrac(e_result.v, <<2 * e_x.n + e_x.d, e_x.d>>)
        /\ (e_expr = ExprXTimes2Plus1 /\ e_x = PyInt(3)) => e_result.v = PyInt(7)
        /\ (e_expr = ExprRoundXOver3 /\ PyEq(e_x, PyInt(10))) =>
               e_result.v = PyFloat(333, 100)

\* "round(x/3,2)" was evaluated at 10 and returned 3.33.
C9_Witness ==
    /\ epc = "returned"
    /\ e_expr = ExprRoundXOver3
    /\ e_x = PyInt(10)
    /\ e_result.v = PyFloat(333, 100)

(***************************************************************************)
(* What one get_values call gives.                                         *)
(***************************************************************************)
\* Expressions inside the documented grammar, and none.
WellFormedExpressions == {None, ExprXTimes2Plus1, ExprKelvinToCelsius}

\* A get_values call over a non-empty set of one kind has finished.
ExtractionOver(kinds) ==
    /\ cur.st \in {"returned", "raised"}
    /\ assets.geometry_type \in kinds
    /\ assets.no_of_assets > 0

\* The method get_values dispatched to went through every geometry and
\* returned its list.
MethodReturned == cur.values.handler /\ cur.values.done = assets.no_of_assets

\* C1: for every non-empty Point, Polygon or LineString set and every dataset,
\* opened or not, with or without an expression of the grammar, get_values
\* returns a list as long as the set has geometries.
C1_ReturnsListOfGeometryCount ==
    (ExtractionOver(GeometryKinds) /\ cur.expression \in WellFormedExpressions)
        => (cur.st = "returned" /\ Len(cur.values.ret) = assets.no_of_assets)

\* C5: in Polygon and in LineString extraction, whatever the clip of a
\* geometry raises, a missing grid included, the method does not abort:
\* every geometry of the set is processed and gets a result.
C5_ClipExceptionNeverAborts ==
    ExtractionOver({"Polygon", "LineString"}) => MethodReturned

\* The result the error policy gives geometry j of the extraction in cur.
PolicyResult(j) ==
    LET c == Clip(cur.dataset, cur.env, j)
    IN  CASE c = "ClientResponseError" -> DataError
          [] c = "NoDataInBounds" -> None
          [] c = "Exception" -> None
          [] c = "nan" -> None
          [] c = "ok" -> GridCell(cur.dataset, j)

\* C6: every geometry of a Polygon or LineString set gets the result of the
\* error policy: "DataError" for a remote-access failure, null for no data in
\* bounds and for any other exception, the mean for a clip that succeeds.
C6_PerGeometryErrorPolicy ==
    ExtractionOver({"Polygon", "LineString"})
        => /\ MethodReturned
           /\ \A j \in 1 .. assets.no_of_assets : cur.values.raw[j] = PolicyResult(j)

\* The feature's returned_values has been set.
HasReturnedValues(f) == f.returned_values # None

C10_ExpressionPositionByPosition ==
    (cur.st \in {"returned", "raised"} /\ MethodReturned)
        => LET raw == cur.values.raw
               applies == \A j \in 1 .. Len(raw) :
                            raw[j] # None => ~IsExc(eval_expr(cur.expression, raw[j]).v)
           IN  IF cur.expression = None
               THEN cur.st = "returned" /\ cur.values.ret = raw
               ELSE applies
                      => /\ cur.st = "returned"
                         /\ Len(cur.values.ret) = Len(raw)
                         /\ \A j \in 1 .. Len(raw) :
                              cur.values.ret[j] =
                                 IF raw[j] = None THEN None
                                 ELSE eval_expr(cur.expression, raw[j]).v

\* An expression was applied to a list holding a null and a number.
C10_Witness ==
    /\ cur.st = "returned"
    /\ cur.expression = ExprXTimes2Plus1
    /\ Len(cur.values.raw) = 2
    /\ cur.values.raw[1] = None
    /\ cur.values.raw[2].k = "num"
    /\ cur.values.ret[1] = None
    /\ cur.values.ret[2] = py_add(py_mul(cur.values.raw[2], PyInt(2)), PyInt(1))


(***************************************************************************)
(* What one run of the workflow gives.                                     *)
(***************************************************************************)
SuccessResponse == [status |-> "success", out_file |-> "./data.csv", error_msg |-> ""]

\* The datasets of the batch whose asset opens, and those whose asset fails.
Openable == {i \in 1 .. Len(stac_results) : stac_results[i].asset = "opens"}
Failing == {i \in 1 .. Len(stac_results) : stac_results[i].asset = "fails"}

\* A values run over a Point set and a resolved batch of several datasets,
\* each under a key of its own, of which some fail to open and the others
\* open and sample without fault; the expression, if any, is of the grammar.
C2_Case ==
    /\ args.output_type = "values"
    /\ args.variable # ""
    /\ args.expression \in WellFormedExpressions
    /\ assets.geometry_type = "Point"
    /\ assets.no_of_assets > 0
    /\ Len(asset_data_list) > 1
    /\ Openable \cup Failing = 1 .. Len(stac_results)
    /\ Openable # {}
    /\ Failing # {}
    /\ \A i \in 1 .. Len(stac_results) : ~stac_results[i].sameday
    /\ sampling_faults = {}

NothingWritten(f) == HasReturnedValues(f) => DOMAIN f.returned_values = {}

\* C3: a set that mixes kinds makes the run fail before any extraction is
\* attempted: no dataset is opened, no extraction handler runs, no value is
\* written to a feature, and the run ends in error.
C3_MixedFailsBeforeExtraction ==
    assets.geometry_type = "Mixed"
        => /\ opened = 0
           /\ cur.st \in {"returned", "raised"} => ~cur.values.handler
           /\ \A j \in 1 .. Len(assets.features) : NothingWritten(assets.features[j])
           /\ pc = "done" => (raised /\ Len(responses) = 1 /\ responses[1].status = "error")

\* What stops a run: the search gave no item (or failed), the geometry
\* source did not load, or the set mixes kinds.
SearchGaveNothing == pc \notin {"start", "idle"} /\ stac_results = <<>>
SourceNotLoaded == pc \notin {"start", "assets", "idle"} /\ assets = NoAssets
MixedKinds == assets.geometry_type = "Mixed"

\* C4: when the search returns no match, the geometry source cannot be
\* loaded or the set mixes kinds, the run ends in the error outcome: it goes
\* on to its end, where one error response carries the message, and no
\* success response is ever produced.
C4_ErrorOutcome ==
    (SearchGaveNothing \/ SourceNotLoaded \/ MixedKinds)
        => /\ pc # "respond"
           /\ \A r \in 1 .. Len(responses) : responses[r].status # "success"
           /\ pc # "done" => ENABLED Next
           /\ pc = "done" => /\ raised
                             /\ Len(responses) = 1
                             /\ responses[1].status = "error"
                             /\ responses[1].out_file = "./error.txt"
                             /\ responses[1].error_msg # ""

\* A run over a mixed set has ended.
C4_Witness ==
    /\ pc = "done"
    /\ MixedKinds
    /\ raised
    /\ responses # <<>>


(***************************************************************************)
(* The summary statistics and the dataset passes.                          *)
(***************************************************************************)
\* The loop over the datasets is over and the run went on to
\* add_summary_statistics.
StatsPassRan ==
    /\ pc \in {"respond", "done"}
    /\ asset_data_list # <<>>
    /\ idx > Len(asset_data_list)
    /\ cur.st \in {"none", "written"}

\* The keys of the dataset entries of a returned_values map, and those among
\* them whose value is not null.
DatasetKeys(rv) == DOMAIN rv \ StatNames
NonNullKeys(rv) == {q \in DatasetKeys(rv) : rv[q].value # None}

\* The four statistics in rv are the minimum, the maximum, the mean and the
\* population standard deviation of the non-null values of rv.
StatisticsOfNonNull(rv) ==
    LET keys == NonNullKeys(rv)
        vals == [q \in keys |-> rv[q].value]
        count == PyInt(Cardinality(keys))
        mean == rv["MEAN"].value
        sq == [q \in keys |-> py_mul(py_sub(vals[q], mean), py_sub(vals[q], mean))]
    IN  IF keys = {}
        THEN \A name \in StatNames : rv[name].value = None
        ELSE /\ \A q \in keys : vals[q].k = "num"
             /\ \E q \in keys : PyEq(rv["MINIMUM"].value, vals[q])
             /\ \A q \in keys : NumLe(rv["MINIMUM"].value, vals[q])
             /\ \E q \in keys : PyEq(rv["MAXIMUM"].value, vals[q])
             /\ \A q \in keys : NumLe(vals[q], rv["MAXIMUM"].value)
             /\ PyEq(py_mul(mean, count), SumValues(vals, keys))
             /\ rv["STANDARD_DEVIATION"].value
                    = Sqrt(py_truediv(SumValues(sq, keys), count))

\* C11: add_summary_statistics adds MINIMUM, MAXIMUM, MEAN and
\* STANDARD_DEVIATION to every feature, each tagged type statistic and
\* computed over exactly the non-null values of the feature's entries; all
\* four are null when the feature has no non-null entry.
C11_StatisticsOverNonNullValues ==
    StatsPassRan
        => \A j \in 1 .. Len(assets.features) :
              LET rv == assets.features[j].returned_values
              IN  /\ \A name \in StatNames :
                       /\ name \in DOMAIN rv
                       /\ rv[name].type = "statistic"
                       /\ rv[name].key = name
                  /\ StatisticsOfNonNull(rv)

\* No written value is the "DataError" sentinel.
NoSentinelWritten ==
    \A j \in 1 .. Len(assets.features) :
        HasReturnedValues(assets.features[j])
            => \A q \in DOMAIN assets.features[j].returned_values :
                  assets.features[j].returned_values[q].value.k # "str"

\* The statistics are as C11 states them in every run that wrote numbers and
\* nulls only.
StatisticsOverNumbersAndNulls == NoSentinelWritten => C11_StatisticsOverNonNullValues

\* Every dataset pass of the batch has finished writing.
AllPassesDone ==
    /\ asset_data_list # <<>>
    /\ idx > Len(asset_data_list)
    /\ cur.st \in {"none", "written"}

\* C12: each dataset of a batch writes under its own key, so that once all
\* dataset passes are over every feature holds the entry of every dataset:
\* none was overwritten by another dataset's.
C12_EachDatasetUnderOwnKey ==
    AllPassesDone
        => \A j \in 1 .. Len(assets.features) : \A i \in 1 .. Len(asset_data_list) :
              LET rv == assets.features[j].returned_values
              IN  asset_data_list[i] # None
                     => \E q \in DatasetKeys(rv) :
                           rv[q].file_name = asset_data_list[i].source_file_name

\* The statistics of the feature have been computed.
HasStatistics(f) == HasReturnedValues(f) /\ StatNames \subseteq DOMAIN f.returned_values

\* C13: the summary-statistics pass starts only after the last dataset pass
\* has finished writing: a feature has statistics only when every dataset
\* pass is over, they are the statistics of the entries all those passes left,
\* and nothing is written into a feature once it has its statistics.
C13_StatisticsAfterAllDatasetPasses ==
    /\ [](\A j \in 1 .. Len(assets.features) :
             HasStatistics(assets.features[j])
                => /\ AllPassesDone
                   /\ StatisticsOfNonNull(assets.features[j].returned_values))
    /\ [][\A j \in 1 .. Len(assets.features) :
             HasStatistics(assets.features[j]) => assets' = assets]_<<vars, evars, cvars>>

\* The statistics of a feature were computed after two dataset passes had
\* written their entries.
C13_Witness ==
    /\ pc = "respond"
    /\ Len(asset_data_list) = 2
    /\ \E j \in 1 .. Len(assets.features) :
         /\ HasStatistics(assets.features[j])
         /\ Cardinality(NonNullKeys(assets.features[j].returned_values)) = 2

\* The items of the batch that have no asset with an allowed extension.
Unresolved == {i \in 1 .. Len(stac_results) : stac_results[i].asset = "none"}

\* A values run over a Point set and a resolved batch in which some items
\* gave no descriptor and every other item opens, has a key of its own and
\* samples without fault; the expression, if any, is of the grammar.
C14_Case ==
    /\ args.output_type = "values"
    /\ args.variable # ""
    /\ args.expression \in WellFormedExpressions
    /\ assets.geometry_type = "Point"
    /\ assets.no_of_assets > 0
    /\ asset_data_list # <<>>
    /\ Unresolved # {}
    /\ Openable # {}
    /\ Openable \cup Unresolved = 1 .. Len(stac_results)
    /\ \A i \in 1 .. Len(stac_results) : ~stac_results[i].sameday
    /\ sampling_faults = {}

\* C14: an item without an allowed asset gives no descriptor and is dropped:
\* the run does not fail because of it, and the remaining items are resolved
\* and extracted.
C14_UnresolvedItemIsDropped ==
    (pc = "done" /\ C14_Case)
        => /\ responses = <<SuccessResponse>>
           /\ ~raised
           /\ \A i \in Unresolved : asset_data_list[i] = None
           /\ \A j \in 1 .. Len(assets.features) : \A i \in Openable :
                LET key == asset_data_list[i].output_name
                    rv == assets.features[j].returned_values
                IN  key \in DOMAIN rv /\ rv[key].value.k = "num"

(***************************************************************************)
(* The bounds of min/max mode                                              *)
(***************************************************************************)
\* The suffix _update_asset_properties_caller appends for the kind of the set.
KindSuffix == IF assets.geometry_type # "Point" THEN "_average" ELSE ""

\* get_min_max_values_for_dataset is over for a dataset with a descriptor:
\* it has written, or it raised after both extractions had returned.
MinMaxPassOver ==
    \/ cur.st = "written"
    \/ /\ pc = "done"
       /\ args.output_type = "min_max"
       /\ cur.st = "returned"
       /\ cur.variable = "lst_uncertainty"
       /\ asset_data_list[idx] # None

\* The dataset of that pass and its two extractions.
MinMaxDataset == IF cur.st = "written" THEN idx - 1 ELSE idx
MinMaxPrimary == cur.lst_values
MinMaxUncertainty ==
    IF cur.st = "written" THEN cur.lst_uncertainty_values ELSE cur.values.ret

\* Feature j holds, for the dataset of the pass, primary - uncertainty under
\* the _minus_uncertainty key and primary + uncertainty under the
\* _plus_uncertainty key, each null exactly when one of the two is null, and
\* the two keys differ.
BoundsWritten(j) ==
    LET name == asset_data_list[MinMaxDataset].output_name
        minus == name \o "_minus_uncertainty" \o KindSuffix
        plus == name \o "_plus_uncertainty" \o KindSuffix
        rv == assets.features[j].returned_values
        a == MinMaxPrimary[j]
        b == MinMaxUncertainty[j]
        either_null == a = None \/ b = None
    IN  /\ minus # plus
        /\ {minus, plus} \subseteq DOMAIN rv
        /\ rv[minus].key = minus
        /\ rv[plus].key = plus
        /\ rv[minus].value = (IF either_null THEN None ELSE py_sub(a, b))
        /\ rv[plus].value = (IF either_null THEN None ELSE py_add(a, b))
        /\ (rv[minus].value = None) <=> either_null
        /\ (rv[plus].value = None) <=> either_null

\* C16: in min/max mode, for every dataset and every geometry i, the value
\* written under the _minus_uncertainty suffix is primary[i] - uncertainty[i]
\* and the value under the _plus_uncertainty suffix is primary[i] +
\* uncertainty[i], primary and uncertainty being the two extractions over
\* the same set; each is null exactly when primary[i] or uncertainty[i] is
\* null, and the two keys are distinct.
C16_BoundsFromPrimaryAndUncertainty ==
    MinMaxPassOver
        => /\ Len(MinMaxPrimary) = Len(assets.features)
           /\ Len(MinMaxUncertainty) = Len(assets.features)
           /\ \A j \in 1 .. Len(assets.features) : BoundsWritten(j)

\* Whatever get_min_max_values_for_dataset has written is as C16 states it.
WrittenBoundsAreDerived ==
    cur.st = "written" => \A j \in 1 .. Len(assets.features) : BoundsWritten(j)

(***************************************************************************)
(* The descriptor of a catalog item: StacItem.get_asset_details            *)
(***************************************************************************)
MaxAssets == 2

\* dict.get(key): None for an absent key.
DictGet(d, key) == IF key \in DOMAIN d THEN d[key] ELSE None

\* An href: the last component of its path as the parts its dots separate.
Href(name) == [base |-> "https://example.com/", name |-> name]
Hrefs ==
    {Href(<<"asset1", "tif">>), Href(<<"asset2", "zstd">>), Href(<<"b", "tiff">>),
     Href(<<"refs", "json">>), Href(<<"data", "nc">>), Href(<<"lst", "v2", "tif">>),
     Href(<<"README">>)}

\* Path(url).suffix
PathSuffix(url) ==
    IF Len(url.name) > 1 THEN "." \o url.name[Len(url.name)] ELSE ""

RECURSIVE JoinParts(_, _)
JoinParts(parts, sep) ==
    IF Len(parts) = 0 THEN ""
    ELSE IF Len(parts) = 1 THEN parts[1]
    ELSE parts[1] \o sep \o JoinParts(Tail(parts), sep)

\* The parts of Path(url).stem: the name without its suffix.
StemParts(url) ==
    IF Len(url.name) > 1 THEN SubSeq(url.name, 1, Len(url.name) - 1) ELSE url.name

\* Path(url).stem
PathStem(url) == JoinParts(StemParts(url), ".")

\* Path(url).stem.replace(".", "-")
SourceFileName(url) == JoinParts(StemParts(url), "-")

\* STAC items: the hrefs of the assets in declared order, and the properties
\* with or without a unit.
StacItems ==
    [assets : UNION {[1 .. k -> Hrefs] : k \in 0 .. MaxAssets},
     properties : {[datetime |-> "2024-02-01T00:00:00Z"],
                   [datetime |-> "2024-02-01T00:00:00Z", unit |-> "c"]}]

\* The extensions get_asset_details takes.
file_types == {".tif", ".tiff", ".json"}

\* The descriptor built from the first asset of the item whose suffix is
\* among the given ones, None when there is none.
FirstAssetDetails(stac_item, suffixes) ==
    LET matching == {j \in 1 .. Len(stac_item.assets) :
                        PathSuffix(stac_item.assets[j]) \in suffixes}
    IN  IF matching = {} THEN None
        ELSE LET j == CHOOSE j \in matching : \A q \in matching : j <= q
                 url == stac_item.assets[j]
             IN  [url |-> url,
                  datetime |-> DictGet(stac_item.properties, "datetime"),
                  source_file_name |-> SourceFileName(url),
                  unit |-> DictGet(stac_item.properties, "unit")]

\* StacItem.get_asset_details
get_asset_details(stac_item) == FirstAssetDetails(stac_item, file_types)

ResolveStart ==
    /\ cpc = "call"
    /\ c_in \in StacItems
    /\ c_out = None

\* One call of get_asset_details on the item c_in.
ResolveItem ==
    /\ cpc = "call"
    /\ c_out' = get_asset_details(c_in)
    /\ cpc' = "returned"
    /\ UNCHANGED c_in
    /\ UNCHANGED <<vars, evars>>

InitResolve == ResolveStart /\ WorkflowIdle /\ EvalIdle

NextResolve == ResolveItem

\* get_asset_details on one catalog item.
SpecResolve == InitResolve /\ [][NextResolve]_<<vars, evars, cvars>>

\* C15: the descriptor comes from the first asset, in declared order, whose
\* extension is one of .tif, .tiff, .json, .nc: its url is the href, its
\* source name the stem of the href, its datetime and unit the item's
\* properties (unit null when absent); every other asset is ignored.
C15_DescriptorFromFirstAllowedAsset ==
    cpc = "returned"
        => LET allowed == {j \in 1 .. Len(c_in.assets) :
                              PathSuffix(c_in.assets[j]) \in {".tif", ".tiff", ".json", ".nc"}}
           IN  allowed # {}
                  => LET j == CHOOSE j \in allowed : \A q \in allowed : j <= q
                     IN  /\ c_out # None
                         /\ c_out.url = c_in.assets[j]
                         /\ c_out.source_file_name = PathStem(c_in.assets[j])
                         /\ c_out.datetime = c_in.properties.datetime
                         /\ c_out.unit = (IF "unit" \in DOMAIN c_in.properties
                                          THEN c_in.properties.unit ELSE None)

(***************************************************************************)
(* The STAC query string: process_stac_query_args                          *)
(***************************************************************************)
\* A query string as the tokens it is written with: punctuation, quoted
\* strings with their quote, integers and bare words.
Punct(c) == [t |-> "punct", c |-> c]
Quoted(q, s) == [t |-> "str", q |-> q, s |-> s]
Digits(v) == [t |-> "int", v |-> v]
Word(w) == [t |-> "word", w |-> w]

\* A string, as its tokens.
PyText(toks) == [k |-> "text", toks |-> toks]
PyBool(b) == [k |-> "bool", b |-> b]
\* A dict: items maps each key (a value) to its value.
PyDict(items) == [k |-> "dict", items |-> items]

\* An exception with its message, the message as the pieces formatted into it.
RaiseMsg(e, msg) == [exc |-> [k |-> "exc", e |-> e, msg |-> msg], ret |-> None]

\* The tokens between the braces of a dict display, with ok telling that
\* they are pairs key : value separated by commas (one trailing comma when
\* the syntax allows it).
DictInner(text, trailing_comma) ==
    LET n == Len(text)
        braces == n >= 2 /\ text[1] = Punct("{") /\ text[n] = Punct("}")
        inner0 == IF braces THEN SubSeq(text, 2, n - 1) ELSE <<>>
        strip == /\ trailing_comma
                 /\ Len(inner0) > 1
                 /\ inner0[Len(inner0)] = Punct(",")
        inner == IF strip THEN SubSeq(inner0, 1, Len(inner0) - 1) ELSE inner0
    IN  [ok |-> /\ braces
                /\ \/ Len(inner) = 0
                   \/ /\ Len(inner) % 4 = 3
                      /\ \A i \in 1 .. Len(inner) :
                           CASE i % 4 = 2 -> inner[i] = Punct(":")
                             [] i % 4 = 0 -> inner[i] = Punct(",")
                             [] OTHER -> inner[i].t # "punct",
         inner |-> inner]

\* The pairs of the tokens between the braces.
Pairs(inner) ==
    [i \in 1 .. ((Len(inner) + 1) \div 4) |->
        [key |-> inner[4 * i - 3], value |-> inner[4 * i - 1]]]

\* A JSON scalar: a double-quoted string, a number, true, false or null.
json_atom(tok) ==
    CASE tok.t = "str" /\ tok.q = "dq" -> Ret(Str(<<tok.s>>))
      [] tok.t = "int" -> Ret(PyInt(tok.v))
      [] tok.t = "word" /\ tok.w = "true" -> Ret(PyBool(TRUE))
      [] tok.t = "word" /\ tok.w = "false" -> Ret(PyBool(FALSE))
      [] tok.t = "word" /\ tok.w = "null" -> Ret(None)
      [] OTHER -> Raise("JSONDecodeError")

\* A Python literal scalar: a string in either quote, a number, True, False
\* or None; any other name is a malformed node.
literal_atom(tok) ==
    CASE tok.t = "str" -> Ret(Str(<<tok.s>>))
      [] tok.t = "int" -> Ret(PyInt(tok.v))
      [] tok.t = "word" /\ tok.w = "True" -> Ret(PyBool(TRUE))
      [] tok.t = "word" /\ tok.w = "False" -> Ret(PyBool(FALSE))
      [] tok.t = "word" /\ tok.w = "None" -> Ret(None)
      [] tok.t = "word" -> RaiseMsg("ValueError", <<"malformed node or string">>)
      [] OTHER -> RaiseMsg("SyntaxError", <<"invalid syntax">>)

\* A token read as a JSON scalar or as a Python literal scalar.
ScalarOf(form, tok) == IF form = "json" THEN json_atom(tok) ELSE literal_atom(tok)

\* The dict of the pairs, their tokens read as JSON or as Python; a later pair
\* with the same key replaces an earlier one.
DictOfPairs(pairs, form) ==
    LET keys == {ScalarOf(form, pairs[i].key).ret : i \in 1 .. Len(pairs)}
    IN  PyDict([key \in keys |->
                   LET last == CHOOSE i \in 1 .. Len(pairs) :
                                   /\ ScalarOf(form, pairs[i].key).ret = key
                                   /\ \A j \in 1 .. Len(pairs) :
                                        ScalarOf(form, pairs[j].key).ret = key => j <= i
                   IN  ScalarOf(form, pairs[last].value).ret])

\* json.loads on a scalar or on an object of scalars.
json_loads(text) ==
    LET d == DictInner(text, FALSE)
        pairs == Pairs(d.inner)
    IN  IF Len(text) = 1 THEN json_atom(text[1])
        ELSE IF /\ d.ok
                /\ \A i \in 1 .. Len(pairs) :
                     /\ pairs[i].key.t = "str" /\ pairs[i].key.q = "dq"
                     /\ ~IsExc(json_atom(pairs[i].value).exc)
             THEN Ret(DictOfPairs(pairs, "json"))
             ELSE Raise("JSONDecodeError")

\* ast.literal_eval on a scalar or on a dict display of scalars: the text is
\* parsed (SyntaxError), then its nodes are converted (ValueError).
literal_eval(text) ==
    LET d == DictInner(text, TRUE)
        pairs == Pairs(d.inner)
        nodes == IF Len(text) = 1 THEN {text[1]}
                 ELSE {pairs[i].key : i \in 1 .. Len(pairs)}
                          \cup {pairs[i].value : i \in 1 .. Len(pairs)}
    IN  IF Len(text) = 1 /\ text[1].t = "punct"
        THEN RaiseMsg("SyntaxError", <<"invalid syntax">>)
        ELSE IF Len(text) # 1 /\ ~d.ok THEN RaiseMsg("SyntaxError", <<"invalid syntax">>)
        ELSE IF \E tok \in nodes : IsExc(literal_atom(tok).exc)
        THEN RaiseMsg("ValueError", <<"malformed node or string">>)
        ELSE IF Len(text) = 1 THEN literal_atom(text[1])
        ELSE Ret(DictOfPairs(pairs, "literal"))

\* f"{value}" as the pieces of the string.
Format(value) ==
    CASE value.k = "str" -> value.s
      [] value.k = "num" -> <<ToString(value.n)>>
      [] value.k = "bool" -> IF value.b THEN <<"True">> ELSE <<"False">>
      [] OTHER -> <<"None">>

\* dict.pop(key) has its key.
HasKey(d, key) == Str(<<key>>) \in DOMAIN d.items
\* The dict after the pops of the given keys.
Without(d, keys) ==
    PyDict([q \in DOMAIN d.items \ {Str(<<key>>) : key \in keys} |-> d.items[q]])

RequiredKeys == <<"stac_catalog", "start_date", "end_date", "collection">>

\* The pops and the result of process_stac_query_args on the parsed query.
query_result(query_dict) ==
    LET missing == {i \in 1 .. Len(RequiredKeys) : ~HasKey(query_dict, RequiredKeys[i])}
        item(key) == query_dict.items[Str(<<key>>)]
    IN  IF query_dict.k # "dict" THEN RaiseMsg("AttributeError", <<"pop">>)
        ELSE IF missing # {}
        THEN RaiseMsg("KeyError",
                      <<RequiredKeys[CHOOSE i \in missing : \A j \in missing : i <= j]>>)
        ELSE Ret([stac_catalog |-> item("stac_catalog"),
                  time_range |-> Str(Format(item("start_date")) \o <<"/">>
                                         \o Format(item("end_date"))),
                  collection |-> item("collection"),
                  query |-> Without(query_dict,
                                    {"stac_catalog", "start_date", "end_date",
                                     "collection", "max_items"}),
                  max_items |-> IF HasKey(query_dict, "max_items")
                                THEN item("max_items") ELSE None])

\* process_stac_query_args
process_stac_query_args(stac_query) ==
    LET j == json_loads(stac_query.toks)
        l == literal_eval(stac_query.toks)
    IN  IF stac_query = None
        THEN RaiseMsg("RuntimeError", <<"The STAC query string is missing.">>)
        ELSE IF ~IsExc(j.exc) THEN query_result(j.ret)
        ELSE IF ~IsExc(l.exc) THEN query_result(l.ret)
        ELSE IF l.exc.e = "ValueError"
        THEN RaiseMsg("ValueError", <<"Invalid stac_query format: ">> \o l.exc.msg)
        ELSE l

\* The keys a query is written with, in the order they are written.
QueryKeys ==
    <<"stac_catalog", "start_date", "end_date", "collection", "max_items",
      "day_night", "cloud_free">>

\* The queries: any of the keys, each with one of its values.
Queries ==
    LET full == [stac_catalog : {Str(<<"https://example.com/stac_catalog">>)},
                 start_date : {Str(<<"2024-05-01">>)},
                 end_date : {Str(<<"2024-05-04">>)},
                 collection : {Str(<<"example-collection">>)},
                 max_items : {PyInt(10), None},
                 day_night : {Str(<<"DAY">>)},
                 cloud_free : {PyBool(TRUE), PyBool(FALSE)}]
    IN  {[key \in D |-> f[key]] : f \in full, D \in SUBSET {QueryKeys[i] : i \in 1 .. Len(QueryKeys)}}

\* json.dumps of a scalar, as a token.
JsonToken(value) ==
    CASE value.k = "str" -> Quoted("dq", value.s[1])
      [] value.k = "num" -> Digits(value.n)
      [] value.k = "bool" -> Word(IF value.b THEN "true" ELSE "false")
      [] OTHER -> Word("null")

\* repr of a scalar, as a token.
LiteralToken(value) ==
    CASE value.k = "str" -> Quoted("sq", value.s[1])
      [] value.k = "num" -> Digits(value.n)
      [] value.k = "bool" -> Word(IF value.b THEN "True" ELSE "False")
      [] OTHER -> Word("None")

RECURSIVE RenderPairs(_, _, _)
RenderPairs(query, form, i) ==
    IF i > Len(QueryKeys) THEN <<>>
    ELSE LET rest == RenderPairs(query, form, i + 1)
             key == QueryKeys[i]
             pair == IF form = "json"
                     THEN <<Quoted("dq", key), Punct(":"), JsonToken(query[key])>>
                     ELSE <<Quoted("sq", key), Punct(":"), LiteralToken(query[key])>>
         IN  IF key \notin DOMAIN query THEN rest
             ELSE IF rest = <<>> THEN pair
             ELSE pair \o <<Punct(",")>> \o rest

\* The query written as a JSON object or as a Python dict display.
Render(query, form) == <<Punct("{")>> \o RenderPairs(query, form, 1) \o <<Punct("}")>>

\* Other strings: words, scalars, broken displays, a display with a trailing
\* comma, and no string at all.
OtherTexts ==
    {<<Word("invalid_query")>>,
     <<>>,
     <<Punct("{")>>,
     <<Punct("{"), Quoted("dq", "unit"), Punct(":"), Punct("}")>>,
     <<Punct("{"), Quoted("dq", "unit"), Punct(":"), Word("tru"), Punct("}")>>,
     <<Punct("{"), Quoted("sq", "unit"), Punct(":"), Word("true"), Punct("}")>>,
     <<Punct("{"), Quoted("dq", "unit"), Quoted("dq", "c"), Punct("}"), Punct("}")>>,
     <<Punct("{"), Quoted("sq", "unit"), Punct(":"), Quoted("sq", "c"), Punct(","),
       Punct("}")>>,
     <<Digits(5)>>,
     <<Quoted("dq", "DAY")>>}

QueryInputs ==
    {[form |-> form, query |-> query, text |-> PyText(Render(query, form))] :
        form \in {"json", "literal"}, query \in Queries}
    \cup {[form |-> "other", query |-> None, text |-> PyText(text)] : text \in OtherTexts}
    \cup {[form |-> "other", query |-> None, text |-> None]}

QueryStart ==
    /\ cpc = "call"
    /\ c_in \in QueryInputs
    /\ c_out = None

\* One call process_stac_query_args(c_in.text): it returns or raises.
ProcessQueryReturns ==
    /\ cpc = "call"
    /\ ~IsExc(process_stac_query_args(c_in.text).exc)
    /\ c_out' = process_stac_query_args(c_in.text)
    /\ cpc' = "returned"
    /\ UNCHANGED c_in
    /\ UNCHANGED <<vars, evars>>

ProcessQueryRaises ==
    /\ cpc = "call"
    /\ IsExc(process_stac_query_args(c_in.text).exc)
    /\ c_out' = process_stac_query_args(c_in.text)
    /\ cpc' = "raised"
    /\ UNCHANGED c_in
    /\ UNCHANGED <<vars, evars>>

InitQuery == QueryStart /\ WorkflowIdle /\ EvalIdle

NextQuery == ProcessQueryReturns \/ ProcessQueryRaises

\* process_stac_query_args on one query string.
SpecQuery == InitQuery /\ [][NextQuery]_<<vars, evars, cvars>>

\* The call is over for a query written in one of the two forms.
QueryProcessed == cpc \in {"returned", "raised"} /\ c_in.form \in {"json", "literal"}

\* The dict of the query's own key/value pairs.
QueryDict(query) ==
    PyDict([key \in {Str(<<q>>) : q \in DOMAIN query} |-> query[key.s[1]]])

\* The JSON form and the Python-literal form of a query give the same
\* result.  For a query with stac_catalog, start_date, end_date and
\* collection the result holds those under stac_catalog, time_range
\* ("start/end") and collection, the remaining pairs without max_items under
\* query, and max_items or None; a query without one of the four raises
\* KeyError.
SameResultForJsonAndLiteral ==
    QueryProcessed
        => LET query == c_in.query
               other == IF c_in.form = "json" THEN "literal" ELSE "json"
               extra == DOMAIN query \ {"stac_catalog", "start_date", "end_date",
                                         "collection", "max_items"}
           IN  /\ c_out = process_stac_query_args(PyText(Render(query, other)))
               /\ IF {"stac_catalog", "start_date", "end_date", "collection"}
                        \subseteq DOMAIN query
                  THEN c_out =
                         Ret([stac_catalog |-> query.stac_catalog,
                              time_range |-> Str(<<query.start_date.s[1], "/",
                                                   query.end_date.s[1]>>),
                              collection |-> query.collection,
                              query |-> QueryDict([key \in extra |-> query[key]]),
                              max_items |-> IF "max_items" \in DOMAIN query
                                            THEN query.max_items ELSE None])
                  ELSE cpc = "raised" /\ c_out.exc.e = "KeyError"

\* C19: process_stac_query_args returns the same result for a query written
\* as JSON and written as a Python literal, and that result is the
\* dictionary of the query's key/value pairs.
C19_ResultIsTheQueryDict ==
    QueryProcessed
        => LET other == IF c_in.form = "json" THEN "literal" ELSE "json"
           IN  /\ c_out = process_stac_query_args(PyText(Render(c_in.query, other)))
               /\ c_out = Ret(QueryDict(c_in.query))

\* C20: a string that is neither valid JSON nor a valid Python literal makes
\* process_stac_query_args raise ValueError with a message that starts with
\* "Invalid stac_query format"; nothing else escapes and nothing is returned.
C20_InvalidFormatRaisesValueError ==
    (/\ cpc \in {"returned", "raised"}
     /\ c_in.text # None
     /\ IsExc(json_loads(c_in.text.toks).exc)
     /\ IsExc(literal_eval(c_in.text.toks).exc))
        => /\ cpc = "raised"
           /\ c_out.exc.e = "ValueError"
           /\ Head(c_out.exc.msg) = "Invalid stac_query format: "

(***************************************************************************)
(* One ValueExtractor: the dataset is loaded, then get_values runs         *)
(***************************************************************************)
Extensions == {".tif", ".tiff", ".json", ".nc", ".txt", ".zarr"}
\* The CRS a resource or a geometry file declares, "" for none.
DeclaredCRS == {"", "EPSG:4326", "EPSG:27700"}

\* Descriptors of one resource with any ending, readable or not.
Descriptors ==
    {[url |-> [item |-> 1, ext |-> ext, readable |-> readable, crs |-> crs],
      datetime |-> [day |-> 1, hour |-> 1],
      source_file_name |-> "asset1",
      unit |-> "K",
      output_name |-> "2024-02-01"] :
        ext \in Extensions, readable \in BOOLEAN, crs \in DeclaredCRS}

\* AssetData.crs: self.gdf.crs if self.gdf.crs else "EPSG:4326"
AssetCRS(gdf_crs) == IF gdf_crs # "" THEN gdf_crs ELSE "EPSG:4326"

\* The geometry sets an extractor is given, with what the raster library
\* does for them.
ExtractorInputs ==
    UNION {[dataset_details : Descriptors,
            geometry_type : {geometry_type},
            no_of_assets : {n},
            gdf_crs : DeclaredCRS,
            env : Envs(geometry_type, n)] :
               geometry_type \in GeometryKinds, n \in 0 .. MaxFeatures}

\* The raster calls of one extraction with the CRS of the coordinates each
\* is given: sel gets assets.data.x and y as they are, clip_box gets
\* row.geometry.bounds as they are (no crs argument), and rio.clip gets the
\* geometry with self.assets.crs and so moves it into the grid's CRS.
RasterCalls(geometry_type, dataset, n, env, assets_crs) ==
    IF dataset = None \/ n = 0 THEN {}
    ELSE IF geometry_type = "Point"
    THEN IF env.index_keys = "other" THEN {}
         ELSE {[call |-> "sel", crs |-> assets_crs]}
    ELSE {[call |-> "clip_box", crs |-> assets_crs],
          [call |-> "clip", crs |-> dataset.crs]}

ExtractorStart ==
    /\ cpc = "new"
    /\ c_in \in ExtractorInputs
    /\ c_out = None

\* ValueExtractor.__init__: load_dataset.
ExtractorInit ==
    /\ cpc = "new"
    /\ c_out' = [dataset |-> load_dataset(c_in.dataset_details, "lst")]
    /\ cpc' = "loaded"
    /\ UNCHANGED c_in
    /\ UNCHANGED <<vars, evars>>

\* What get_values() of the loaded extractor gives, with the raster calls made.
ExtractorValues ==
    [dataset |-> c_out.dataset,
     values |-> get_values(c_in.geometry_type, c_out.dataset, c_in.no_of_assets,
                           c_in.env, None),
     calls |-> RasterCalls(c_in.geometry_type, c_out.dataset, c_in.no_of_assets,
                           c_in.env, AssetCRS(c_in.gdf_crs))]

\* ValueExtractor.get_values: it returns its list or raises.
ExtractorReturns ==
    /\ cpc = "loaded"
    /\ ~IsExc(ExtractorValues.values.exc)
    /\ c_out' = ExtractorValues
    /\ cpc' = "returned"
    /\ UNCHANGED c_in
    /\ UNCHANGED <<vars, evars>>

ExtractorRaises ==
    /\ cpc = "loaded"
    /\ IsExc(ExtractorValues.values.exc)
    /\ c_out' = ExtractorValues
    /\ cpc' = "raised"
    /\ UNCHANGED c_in
    /\ UNCHANGED <<vars, evars>>

InitExtractor == ExtractorStart /\ WorkflowIdle /\ EvalIdle

NextExtractor == ExtractorInit \/ ExtractorReturns \/ ExtractorRaises

\* One ValueExtractor from its construction to the end of get_values.
SpecExtractor == InitExtractor /\ [][NextExtractor]_<<vars, evars, cvars>>

\* C17: every raster call of an extraction is given coordinates in the CRS
\* of the grid: a geometry set in another CRS is transformed before it is
\* sampled or clipped.
C17_SampledInTheGridCRS ==
    cpc \in {"returned", "raised"}
        => \A call \in c_out.calls : call.crs = c_out.dataset.crs

\* C18: a descriptor whose url ends outside .tif, .tiff, .json, .nc fails to
\* open with the unsupported-file-type error and gives no grid, and the
\* failure stays with this dataset: the extraction goes on with a null for
\* every geometry, so that the next dataset is reached.
C18_UnsupportedFormatIsConfined ==
    (/\ cpc \in {"returned", "raised"}
     /\ c_in.dataset_details.url.ext \notin {".tif", ".tiff", ".json", ".nc"})
        => /\ LET opening == DatasetDataArray(c_in.dataset_details, "lst")
              IN  /\ IsExc(opening.exc)
                  /\ opening.exc.e = "ValueError"
                  /\ Head(opening.exc.msg) = "Unsupported file type: "
           /\ c_out.dataset = None
           /\ cpc = "returned"
           /\ c_out.values.ret = NoneList(c_in.no_of_assets)

\* get_values of the extractor is over for a Point set.
PointExtractionOver ==
    cpc \in {"returned", "raised"} /\ c_in.geometry_type = "Point"

\* C22: point extraction never raises, and when the lookup fails (no grid,
\* a sampling exception, or spatial axes that are neither lat/lon nor y/x) it
\* returns a list of nulls as long as the point count.
C22_PointExtractionNeverRaises ==
    PointExtractionOver
        => /\ cpc = "returned"
           /\ ~IsExc(c_out.values.exc)
           /\ Len(c_out.values.ret) = c_in.no_of_assets
           /\ (\/ c_out.dataset = None
               \/ c_in.env.sel = "raises"
               \/ c_in.env.index_keys = "other")
                 => \A j \in 1 .. c_in.no_of_assets : c_out.values.ret[j] = None

\* Two points and a dataset that did not open: the list of two nulls.
C22_Witness ==
    /\ cpc = "returned"
    /\ c_in.geometry_type = "Point"
    /\ c_in.no_of_assets = 2
    /\ c_out.dataset = None
    /\ c_out.values.ret = <<None, None>>

(***************************************************************************)
(* The "DataError" sentinel in the later stages                            *)
(***************************************************************************)
\* An extraction over a Polygon or LineString set on an opened grid is over,
\* some clip raised ClientResponseError and no clip raised an exception
\* other than the two the loops name.
SentinelExtractionOver ==
    /\ cur.st \in {"returned", "raised"}
    /\ assets.geometry_type \in {"Polygon", "LineString"}
    /\ cur.dataset # None
    /\ \E j \in 1 .. assets.no_of_assets : cur.env[j] = "ClientResponseError"
    /\ \A j \in 1 .. assets.no_of_assets : cur.env[j] # "Exception"

\* Some feature holds the sentinel as a written value.
SentinelWritten ==
    \E j \in 1 .. Len(assets.features) :
        /\ HasReturnedValues(assets.features[j])
        /\ \E q \in DOMAIN assets.features[j].returned_values :
             assets.features[j].returned_values[q].value = DataError

\* C23: a geometry whose extraction yields "DataError" keeps the failure to
\* itself: get_values returns the sentinel for it and values for the others
\* (with an expression too), the min/max derivation writes for the dataset,
\* and the summary statistics complete, so that the run ends in success.
C23_SentinelIsContained ==
    /\ SentinelExtractionOver
          => /\ cur.st = "returned"
             /\ \A j \in 1 .. assets.no_of_assets :
                  /\ cur.env[j] = "ClientResponseError" => cur.values.ret[j] = DataError
                  /\ cur.env[j] = "ok" => cur.values.ret[j].k = "num"
    /\ (MinMaxPassOver
         /\ \E j \in 1 .. Len(MinMaxUncertainty) :
               DataError \in {MinMaxPrimary[j], MinMaxUncertainty[j]})
          => cur.st = "written"
    /\ (StatsPassRan /\ SentinelWritten)
          => /\ \A j \in 1 .. Len(assets.features) : HasStatistics(assets.features[j])
             /\ pc = "done" => responses = <<SuccessResponse>>

(***************************************************************************)
(* The entries a dataset pass writes                                       *)
(***************************************************************************)
\* The entry of the dataset with descriptor dd under the given key, holding
\* the given value.
EntryOf(dd, key, value) ==
    [value |-> value,
     datetime |-> isoformat(dd.datetime),
     unit |-> dd.unit,
     file_name |-> dd.source_file_name,
     key |-> key]

\* The step is the write of get_values_for_dataset for the dataset idx.
ValuesWritten ==
    /\ pc = "values"
    /\ cur.st = "returned"
    /\ idx' = idx + 1

MaxGeometries == 3

\* What a feature of json_data["features"] carries as its geometry: no
\* "geometry" member ("absent"), the member set to null ("null"), a geometry
\* object with no "type" or an empty one ("untyped"), or a geometry object of
\* the named type.
GeometryForms == {"absent", "null", "untyped"} \cup GeometryKinds
FeatureLists ==
    UNION {[1 .. k -> [geometry : GeometryForms]] : k \in 0 .. MaxGeometries}

\* AssetData._list_geometry_types: feature.get("geometry", {}) is the empty
\* dict for an absent member and None for a null one, on which .get raises;
\* a falsy type is not appended.
RECURSIVE _list_geometry_types(_, _, _)
_list_geometry_types(features, k, geometry_types) ==
    IF k > Len(features) THEN Ret(geometry_types)
    ELSE IF features[k].geometry = "null" THEN Raise("AttributeError")
    ELSE IF features[k].geometry \in {"absent", "untyped"}
         THEN _list_geometry_types(features, k + 1, geometry_types)
    ELSE _list_geometry_types(features, k + 1, Append(geometry_types, features[k].geometry))

\* AssetData.get_geometry_types for json_data holding the given features.
GeometryTypeOf(features) ==
    LET geom_type_list == _list_geometry_types(features, 1, <<>>)
    IN  IF IsExc(geom_type_list.exc) THEN geom_type_list
        ELSE get_geometry_types(geom_type_list.ret)

ClassifyStart ==
    /\ cpc = "call"
    /\ c_in \in [features : FeatureLists]
    /\ c_out = None

\* One call of get_geometry_types: it returns or raises.
ClassifyReturns ==
    /\ cpc = "call"
    /\ ~IsExc(GeometryTypeOf(c_in.features).exc)
    /\ c_out' = GeometryTypeOf(c_in.features)
    /\ cpc' = "returned"
    /\ UNCHANGED c_in
    /\ UNCHANGED <<vars, evars>>

ClassifyRaises ==
    /\ cpc = "call"
    /\ IsExc(GeometryTypeOf(c_in.features).exc)
    /\ c_out' = GeometryTypeOf(c_in.features)
    /\ cpc' = "raised"
    /\ UNCHANGED c_in
    /\ UNCHANGED <<vars, evars>>

InitClassify == ClassifyStart /\ WorkflowIdle /\ EvalIdle

NextClassify == ClassifyReturns \/ ClassifyRaises

\* get_geometry_types on one feature list.
SpecClassify == InitClassify /\ [][NextClassify]_<<vars, evars, cvars>>

\* The geometry types the features of c_in declare.
DeclaredTypes ==
    {c_in.features[k].geometry : k \in 1 .. Len(c_in.features)} \cap GeometryKinds

\* C24: get_geometry_types returns the common type when every feature that
\* declares a geometry type declares the same one, "Mixed" when two declared
\* types differ (in whatever order the features come), and fails when no
\* feature declares a geometry type.
C24_CommonTypeOrMixedOrError ==
    cpc \in {"returned", "raised"}
        => /\ Cardinality(DeclaredTypes) = 1
                => cpc = "returned" /\ c_out.ret \in DeclaredTypes
           /\ Cardinality(DeclaredTypes) > 1
                => cpc = "returned" /\ c_out.ret = "Mixed"
           /\ DeclaredTypes = {} => cpc = "raised"

\* What holds of get_geometry_types when no feature has a null geometry.
ClassifiedWhenNoNullGeometry ==
    (cpc \in {"returned", "raised"}
        /\ \A k \in 1 .. Len(c_in.features) : c_in.features[k].geometry # "null")
        => /\ Cardinality(DeclaredTypes) = 1
                => cpc = "returned" /\ c_out.ret \in DeclaredTypes
           /\ Cardinality(DeclaredTypes) > 1
                => cpc = "returned" /\ c_out.ret = "Mixed"
           /\ DeclaredTypes = {} => cpc = "raised" /\ c_out.exc = Exc("ValueError")

(***************************************************************************)
(* add_summary_statistics called again on the collection it has filled     *)
(***************************************************************************)
MaxEntries == 2
MaxStatFeatures == 2

\* The values the dataset passes left: a null or a number.
EntryValues == {None, PyFloat(0, 1), PyFloat(2, 1)}

\* The entry a dataset pass wrote for the dataset of the given day.
DatasetEntry(day, value) ==
    [value |-> value,
     datetime |-> isoformat([day |-> day, hour |-> 0]),
     unit |-> "K",
     file_name |-> "LST_" \o ToString(day),
     key |-> create_output_name([day |-> day])]

\* The returned_values maps the dataset passes can leave for one feature.
ReturnedValuesMaps ==
    UNION {{[q \in {create_output_name([day |-> d]) : d \in 1 .. n} |->
                DatasetEntry(CHOOSE d \in 1 .. n : create_output_name([day |-> d]) = q,
                             values[CHOOSE d \in 1 .. n : create_output_name([day |-> d]) = q])]
              : values \in [1 .. n -> EntryValues]} : n \in 0 .. MaxEntries}

StatFeatureLists ==
    UNION {[1 .. k -> [geometry : {"Polygon"}, returned_values : ReturnedValuesMaps]]
              : k \in 1 .. MaxStatFeatures}

StatisticsStart ==
    /\ cpc = "call"
    /\ c_in \in [features : StatFeatureLists, first : {<<>>}]
    /\ c_out = None

\* One call of add_summary_statistics on the collection, the first or the
\* second; c_in.first keeps what the first call left.
AddSummaryStatistics ==
    /\ cpc \in {"call", "once"}
    /\ LET features == IF cpc = "call" THEN c_in.features ELSE c_out
           r == add_summary_statistics(features)
       IN  IF IsExc(r.exc)
           THEN /\ cpc' = "raised"
                /\ UNCHANGED <<c_in, c_out>>
           ELSE /\ c_out' = r.ret
                /\ cpc' = IF cpc = "call" THEN "once" ELSE "twice"
                /\ c_in' = IF cpc = "call" THEN [c_in EXCEPT !.first = r.ret] ELSE c_in
    /\ UNCHANGED <<vars, evars>>

InitStatistics == StatisticsStart /\ WorkflowIdle /\ EvalIdle

NextStatistics == AddSummaryStatistics

\* add_summary_statistics twice on one feature collection.
SpecStatistics == InitStatistics /\ [][NextStatistics]_<<vars, evars, cvars>>

\* C26: the statistics are computed from dataset entries only, so a second
\* call of add_summary_statistics leaves every returned_values map as the
\* first call left it.
C26_SecondCallChangesNothing ==
    cpc = "twice"
        => \A j \in 1 .. Len(c_out) :
              c_out[j].returned_values = c_in.first[j].returned_values

\* The second call changes nothing for a feature whose dataset entries are
\* all null or zero: the statistics it reads back are null or zero as well.
SecondCallKeepsNullAndZeroStatistics ==
    cpc = "twice"
        => \A j \in 1 .. Len(c_out) :
              (\A q \in DOMAIN c_in.features[j].returned_values :
                  c_in.features[j].returned_values[q].value \in {None, PyFloat(0, 1)})
                 => c_out[j].returned_values = c_in.first[j].returned_values

(***************************************************************************)
(* parse_arguments: the command line merged with the extra arguments       *)
(***************************************************************************)
\* The value string_to_json returns for what json.loads and ast.literal_eval
\* give: the first that did not raise, None when both did.
FirstParsed(j, l) ==
    IF ~IsExc(j.exc) THEN j.ret
    ELSE IF ~IsExc(l.exc) THEN l.ret
    ELSE None

\* string_to_json: json.loads, then ast.literal_eval, then None.
string_to_json(string) == FirstParsed(json_loads(string.toks), literal_eval(string.toks))

\* dict.get(key, None)
ItemOf(d, key) == IF HasKey(d, key) THEN d.items[Str(<<key>>)] ELSE None

\* bool(value): None, zero and the empty string are falsy.
Truthy(value) ==
    CASE value.k = "none" -> FALSE
      [] value.k = "num" -> value.n # 0
      [] value.k = "str" -> value.s # <<>> /\ value.s # <<"">>
      [] value.k = "text" -> value.toks # <<>>
      [] OTHER -> TRUE

\* The dict process_extra_args reads its keys from.
ArgsDict(extra_args) ==
    IF extra_args.k = "dict" THEN extra_args
    ELSE IF Truthy(extra_args) THEN string_to_json(extra_args)
    ELSE PyDict(EmptyDict)

\* The keys read from args_dict and the environment variable set.  A value
\* that is not a dict has no get.
ProcessedArgs(args_dict, environ) ==
    IF args_dict.k # "dict"
    THEN [exc |-> Exc("AttributeError"), ret |-> None, environ |-> environ]
    ELSE [exc |-> None,
          ret |-> [variable |-> ItemOf(args_dict, "variable"),
                   crs |-> ItemOf(args_dict, "crs"),
                   unit |-> ItemOf(args_dict, "unit"),
                   expression |-> ItemOf(args_dict, "expression"),
                   output_type |-> ItemOf(args_dict, "output_type")],
          environ |-> IF Truthy(ItemOf(args_dict, "output_name"))
                      THEN [environ EXCEPT
                               !.OUTPUT_NAME_TEMPLATE = ItemOf(args_dict, "output_name")]
                      ELSE environ]

\* process_extra_args in a process whose environment is environ: what it
\* returns or raises, and the environment it leaves.
process_extra_args(extra_args, environ) == ProcessedArgs(ArgsDict(extra_args), environ)

\* parse_arguments for the options given on the command line: every key of
\* the processed extra arguments is set on the namespace.
Namespace(argv, processed) ==
    IF IsExc(processed.exc) THEN [exc |-> processed.exc, ret |-> None]
    ELSE Ret([extra_args |-> argv.extra_args,
              variable |-> processed.ret.variable,
              crs |-> processed.ret.crs,
              unit |-> processed.ret.unit,
              expression |-> processed.ret.expression,
              output_type |-> processed.ret.output_type])

parse_arguments(argv) ==
    Namespace(argv, process_extra_args(argv.extra_args, [OUTPUT_NAME_TEMPLATE |-> None]))

\* The keys of the extra arguments, in the order they are written.
ExtraKeys == <<"variable", "output_type", "expression", "output_name">>

\* The extra arguments: any of the keys, each with one of its values.
ExtraDicts ==
    LET full == [variable : {Str(<<"lst_uncertainty">>), None},
                 output_type : {Str(<<"min_max">>)},
                 expression : {Str(<<"x*2">>)},
                 output_name : {Str(<<"{file_name}">>)}]
    IN  {[key \in D |-> f[key]] : f \in full, D \in SUBSET {ExtraKeys[i] : i \in 1 .. Len(ExtraKeys)}}

RECURSIVE RenderItems(_, _, _, _)
RenderItems(d, keys, form, i) ==
    IF i > Len(keys) THEN <<>>
    ELSE LET rest == RenderItems(d, keys, form, i + 1)
             key == keys[i]
             pair == IF form = "json"
                     THEN <<Quoted("dq", key), Punct(":"), JsonToken(d[key])>>
                     ELSE <<Quoted("sq", key), Punct(":"), LiteralToken(d[key])>>
         IN  IF key \notin DOMAIN d THEN rest
             ELSE IF rest = <<>> THEN pair
             ELSE pair \o <<Punct(",")>> \o rest

\* The value of --extra_args: not given, a dict written as JSON or as a
\* Python literal, the empty string, or a string that is no dict.  given is
\* the dict that was written, None when none was.
ExtraArgsInputs ==
    {[given |-> PyDict([key \in {Str(<<q>>) : q \in DOMAIN d} |-> d[key.s[1]]]),
      text |-> PyText(<<Punct("{")>> \o RenderItems(d, ExtraKeys, form, 1) \o <<Punct("}")>>)] :
        d \in ExtraDicts, form \in {"json", "literal"}}
    \cup {[given |-> None, text |-> text] :
            text \in {None, PyText(<<>>), PyText(<<Word("invalid")>>), PyText(<<Digits(5)>>)}}

\* The options of one command line.
CommandLines ==
    {[variable |-> variable, output_type |-> output_type, extra_args |-> e.text,
      given |-> e.given] :
        variable \in {None, Str(<<"lst">>)},
        output_type \in {Str(<<"values">>), Str(<<"min_max">>)},
        e \in ExtraArgsInputs}

ArgumentsStart ==
    /\ cpc = "call"
    /\ c_in \in CommandLines
    /\ c_out = None

\* The call gave r: the namespace returned, or the exception raised.
ArgumentsReturned(r) ==
    /\ ~IsExc(r.exc)
    /\ c_out' = r.ret
    /\ cpc' = "returned"

ArgumentsRaised(r) ==
    /\ IsExc(r.exc)
    /\ c_out' = r.exc
    /\ cpc' = "raised"

\* One call of parse_arguments: it returns the namespace or raises.
ParseArgumentsReturns ==
    /\ cpc = "call"
    /\ ArgumentsReturned(parse_arguments(c_in))
    /\ UNCHANGED c_in
    /\ UNCHANGED <<vars, evars>>

ParseArgumentsRaises ==
    /\ cpc = "call"
    /\ ArgumentsRaised(parse_arguments(c_in))
    /\ UNCHANGED c_in
    /\ UNCHANGED <<vars, evars>>

InitArguments == ArgumentsStart /\ WorkflowIdle /\ EvalIdle

NextArguments == ParseArgumentsReturns \/ ParseArgumentsRaises

\* parse_arguments on one command line.
SpecArguments == InitArguments /\ [][NextArguments]_<<vars, evars, cvars>>

\* The extra arguments of c_in carry the key.
ExtraCarries(key) == c_in.given # None /\ HasKey(c_in.given, key)

\* C27: a value given with --variable or --output_type is the one
\* run_workflow uses whenever extra_args is absent or does not carry that
\* key: the merge never replaces it by null.
C27_DedicatedOptionsSurviveTheMerge ==
    cpc = "returned"
        => /\ ~ExtraCarries("variable") => c_out.variable = c_in.variable
           /\ ~ExtraCarries("output_type") => c_out.output_type = c_in.output_type

\* The namespace parse_arguments returns holds what the extra arguments
\* carry for variable and output_type, and null for what they do not carry.
MergedOptionsAreTheExtraArguments ==
    cpc = "returned"
        => /\ c_out.variable = IF ExtraCarries("variable")
                               THEN ItemOf(c_in.given, "variable") ELSE None
           /\ c_out.output_type = IF ExtraCarries("output_type")
                                  THEN ItemOf(c_in.given, "output_type") ELSE None

(***************************************************************************)
(* The outcome of a run                                                    *)
(***************************************************************************)
\* C28: every execution of run_workflow produces exactly one outcome: the
\* success output alone (data.csv with its catalog) when every step
\* succeeded, or the error output alone (error.txt) with a RuntimeError
\* raised to the caller when a step raised; never both, and nothing is
\* written before the run is over.
C28_ExactlyOneOutcome ==
    /\ pc # "done" => responses = <<>> /\ ~raised
    /\ pc = "done"
          => /\ Len(responses) = 1
             /\ \/ /\ responses[1] = SuccessResponse
                   /\ ~raised
                \/ /\ responses[1].status = "error"
                   /\ responses[1].out_file = "./error.txt"
                   /\ raised
    /\ \A i \in 1 .. Len(responses) : \A j \in 1 .. Len(responses) :
          responses[i].status = responses[j].status

\* A run that raised after a dataset pass had written its values: the error
\* output is the only one.
C28_Witness ==
    /\ pc = "done"
    /\ raised
    /\ Len(responses) = 1
    /\ responses[1].status = "error"
    /\ \E j \in 1 .. Len(assets.features) :
          /\ HasReturnedValues(assets.features[j])
          /\ DOMAIN assets.features[j].returned_values # {}

(***************************************************************************)
(* WorkflowResponse.to_csv                                                 *)
(***************************************************************************)
\* extract_datetime_values of to_csv for one row: under each key of
\* returned_values the entry's value when it is truthy, "none" otherwise.
extract_datetime_values(returned_values) ==
    [key \in DOMAIN returned_values |->
        IF Truthy(returned_values[key].value) THEN returned_values[key].value
        ELSE Str(<<"none">>)]

\* WorkflowResponse.to_csv: the cells of the value columns, row by row.
to_csv(features) ==
    [i \in 1 .. Len(features) |-> extract_datetime_values(features[i].returned_values)]

\* The feature collections of a success response: the dataset entries and
\* the statistics add_summary_statistics computed from them.
ResponseFeatureLists == {add_summary_statistics(features).ret : features \in StatFeatureLists}

CsvStart ==
    /\ cpc = "call"
    /\ c_in \in [features : ResponseFeatureLists]
    /\ c_out = None

\* One call of to_csv on the collection of the response.
WriteCsv ==
    /\ cpc = "call"
    /\ c_out' = to_csv(c_in.features)
    /\ cpc' = "returned"
    /\ UNCHANGED c_in
    /\ UNCHANGED <<vars, evars>>

InitCsv == CsvStart /\ WorkflowIdle /\ EvalIdle

NextCsv == WriteCsv

\* to_csv on one feature collection.
SpecCsv == InitCsv /\ [][NextCsv]_<<vars, evars, cvars>>

\* C30: the cell of a feature for a returned_values key holds "none" exactly
\* when the entry's value is null; every non-null value, 0 included, is
\* written as itself.
C30_NoneCellExactlyForNull ==
    cpc = "returned"
        => \A i \in 1 .. Len(c_in.features) :
              \A key \in DOMAIN c_in.features[i].returned_values :
                 LET value == c_in.features[i].returned_values[key].value
                 IN  /\ c_out[i][key] = Str(<<"none">>) <=> value = None
                     /\ value # None => c_out[i][key] = value

\* The cell holds "none" for a null and for a zero, and the value itself
\* otherwise.
NoneCellForNullAndZero ==
    cpc = "returned"
        => \A i \in 1 .. Len(c_in.features) :
              \A key \in DOMAIN c_in.features[i].returned_values :
                 LET value == c_in.features[i].returned_values[key].value
                 IN  c_out[i][key] = IF value = None \/ PyEq(value, PyFloat(0, 1))
                                     THEN Str(<<"none">>) ELSE value

(***************************************************************************)
(* query_to_filter                                                         *)
(***************************************************************************)
MaxQueryKeys == 3

\* The values a query can give each property.
FilterValues ==
    [day_night |-> {Str(<<"DAY">>), Str(<<"NIGHT">>)},
     unit |-> {Str(<<"c">>), Str(<<"K">>)},
     cloud_free |-> {PyBool(TRUE), PyBool(FALSE)},
     max_items |-> {PyInt(10)}]

\* The query dictionaries, as their items in insertion order: distinct keys,
\* each with one of its values.
FilterQueries ==
    UNION {{items \in [1 .. n -> [key : DOMAIN FilterValues,
                                  value : UNION {FilterValues[q] : q \in DOMAIN FilterValues}]] :
               /\ \A i \in 1 .. n : items[i].value \in FilterValues[items[i].key]
               /\ \A i \in 1 .. n : \A j \in 1 .. n : items[i].key = items[j].key => i = j}
              : n \in 0 .. MaxQueryKeys}

\* query_to_filter with the property named by the bare key.
query_to_filter_bare(items) ==
    [op |-> "and",
     args |-> [i \in 1 .. Len(items) |->
                  [op |-> "=",
                   args |-> <<[property |-> items[i].key], items[i].value>>]]]

\* query_to_filter on the items of the query.
query_to_filter(items) ==
    [op |-> "and",
     args |-> [i \in 1 .. Len(items) |->
                  [op |-> "=",
                   args |-> <<[property |-> "properties." \o items[i].key],
                              items[i].value>>]]]

FilterStart ==
    /\ cpc = "call"
    /\ c_in \in [query : FilterQueries]
    /\ c_out = None

\* One call of query_to_filter.
QueryToFilter ==
    /\ cpc = "call"
    /\ c_out' = query_to_filter(c_in.query)
    /\ cpc' = "returned"
    /\ UNCHANGED c_in
    /\ UNCHANGED <<vars, evars>>

InitFilter == FilterStart /\ WorkflowIdle /\ EvalIdle

NextFilter == QueryToFilter

\* query_to_filter on one query dictionary.
SpecFilter == InitFilter /\ [][NextFilter]_<<vars, evars, cvars>>

\* C21: query_to_filter returns an "and" filter whose args hold exactly one
\* "=" condition per key of the query, in the query's key order, each
\* comparing the property "properties.<key>" with that key's value.
C21_OneEqualityPerKeyInOrder ==
    cpc = "returned"
        => /\ c_out.op = "and"
           /\ Len(c_out.args) = Len(c_in.query)
           /\ \A i \in 1 .. Len(c_in.query) :
                /\ c_out.args[i].op = "="
                /\ Len(c_out.args[i].args) = 2
                /\ c_out.args[i].args[1] = [property |-> "properties." \o c_in.query[i].key]
                /\ c_out.args[i].args[2] = c_in.query[i].value

\* The query of the repository's test: day_night DAY, then unit c.
C21_Witness ==
    /\ cpc = "returned"
    /\ c_in.query = <<[key |-> "day_night", value |-> Str(<<"DAY">>)],
                      [key |-> "unit", value |-> Str(<<"c">>)]>>
    /\ c_out = [op |-> "and",
                args |-> <<[op |-> "=",
                            args |-> <<[property |-> "properties.day_night"],
                                       Str(<<"DAY">>)>>],
                           [op |-> "=",
                            args |-> <<[property |-> "properties.unit"], Str(<<"c">>)>>]>>]

(***************************************************************************)
(* The output name across calls of process_extra_args in one process       *)
(***************************************************************************)
\* eval(f"f'{template}'") in create_output_name: the pieces of the template,
\* a replacement field giving the local it names.
EvalTemplate(template, dt, file_name) ==
    LET piece(i) == CASE template.s[i] = "{file_name}" -> file_name
                      [] template.s[i] = "{datetime_string}" ->
                             create_output_name(dt) \o " 0" \o ToString(dt.hour) \o ":00:00"
                      [] OTHER -> template.s[i]
        F[i \in 0 .. Len(template.s)] == IF i = 0 THEN "" ELSE F[i - 1] \o piece(i)
    IN  F[Len(template.s)]

\* DatasetDetails.create_output_name in a process whose environment is
\* environ: the evaluated OUTPUT_NAME_TEMPLATE when it is set, the ISO date
\* otherwise.
create_output_name_in(dataset_details, environ) ==
    IF environ.OUTPUT_NAME_TEMPLATE # None
    THEN EvalTemplate(environ.OUTPUT_NAME_TEMPLATE, dataset_details.datetime,
                      dataset_details.source_file_name)
    ELSE create_output_name(dataset_details.datetime)

\* The extra arguments of a call, as a dict: with or without a variable and
\* an expression, and with the given output_name (None: the key is absent).
ExtraArgsWith(output_name) ==
    {PyDict([key \in {Str(<<q>>) : q \in D \cup (IF output_name = None THEN {} ELSE {"output_name"})}
                |-> CASE key.s[1] = "variable" -> Str(<<"lst">>)
                      [] key.s[1] = "expression" -> Str(<<"x*2">>)
                      [] OTHER -> output_name])
        : D \in SUBSET {"variable", "expression"}}

OutputNames ==
    {None, Str(<<"">>), Str(<<"lst">>), Str(<<"{file_name}">>),
     Str(<<"{file_name}", "_", "{datetime_string}">>)}

\* Two calls of process_extra_args in one process, the second with no
\* output_name, then the creation of a descriptor.
OutputNameStart ==
    /\ cpc = "call"
    /\ c_in \in [first : UNION {ExtraArgsWith(o) : o \in OutputNames},
                 second : ExtraArgsWith(None),
                 dataset_details : [datetime : [day : 1 .. 2, hour : {1}],
                                    source_file_name : {"LST_A"}]]
    /\ c_out = [environ |-> [OUTPUT_NAME_TEMPLATE |-> None], output_name |-> ""]

\* One call of process_extra_args, the first or the second of the process.
ProcessExtraArgs ==
    /\ cpc \in {"call", "first"}
    /\ LET extra_args == IF cpc = "call" THEN c_in.first ELSE c_in.second
       IN  c_out' = [c_out EXCEPT !.environ =
                        process_extra_args(extra_args, c_out.environ).environ]
    /\ cpc' = IF cpc = "call" THEN "first" ELSE "second"
    /\ UNCHANGED c_in
    /\ UNCHANGED <<vars, evars>>

\* DatasetDetails(...) after the calls: __init__ sets output_name.
CreateDescriptor ==
    /\ cpc = "second"
    /\ c_out' = [c_out EXCEPT !.output_name =
                    create_output_name_in(c_in.dataset_details, c_out.environ)]
    /\ cpc' = "created"
    /\ UNCHANGED c_in
    /\ UNCHANGED <<vars, evars>>

InitOutputName == OutputNameStart /\ WorkflowIdle /\ EvalIdle

NextOutputName == ProcessExtraArgs \/ CreateDescriptor

\* The output name of a descriptor after two calls of process_extra_args.
SpecOutputName == InitOutputName /\ [][NextOutputName]_<<vars, evars, cvars>>

\* C29: the output name depends only on the arguments of the current call:
\* after process_extra_args is called with no output_name, a descriptor
\* created afterwards gets the default ISO-date name, whatever output_name
\* an earlier call in the same process was given.
C29_OutputNameOfTheCurrentCallOnly ==
    cpc = "created"
        => c_out.output_name = create_output_name(c_in.dataset_details.datetime)

\* The descriptor is named by the template the earlier call left in the
\* environment, and by the ISO date only when that call gave none.
OutputNameOfTheEarlierCall ==
    cpc = "created"
        => LET earlier == ItemOf(c_in.first, "output_name")
           IN  c_out.output_name =
                  IF Truthy(earlier)
                  THEN EvalTemplate(earlier, c_in.dataset_details.datetime,
                                    c_in.dataset_details.source_file_name)
                  ELSE create_output_name(c_in.dataset_details.datetime)

====
